---- MODULE Spec2Model ----
(***************************************************************************)
(* Model of the coderev review pipeline (src/services/review/pipeline.py)   *)
(* as it is driven by the Celery task process_review                        *)
(* (src/worker/tasks/review_tasks.py) or called directly, together with the *)
(* reviews table it reads and writes through ReviewRepository.              *)
(*                                                                          *)
(* Every await of ReviewPipeline.execute is one step of a task, so the      *)
(* executions of different tasks interleave at exactly the points where     *)
(* the event loops / worker processes can interleave.  Each execution has   *)
(* its own database session: rows it flushed are visible to itself only,    *)
(* and reach the table when process_review commits.                         *)
(*                                                                          *)
(* Optional values (int | None) are sequences: <<>> is None, <<v>> is v.    *)
(* Text (summaries) is a sequence of fragments; <<>> is the empty string.   *)
(* Paths are sequences of characters so that endswith() is computed.        *)
(*                                                                          *)
(* The router, the aggregation, the diff parser, the providers' response    *)
(* parsing and the webhook receiver are followed one call at a time, each   *)
(* under a specification of its own (SpecRouter, SpecAggregate, SpecParse,  *)
(* SpecLLM, SpecWebhook) in which the pipeline is at rest.                  *)
(***************************************************************************)
EXTENDS Integers, Sequences, FiniteSets, TLC

\* ------------------------------------------------------------------ bounds
MaxFilesSetting == 2
MaxCallsCounted == 2
MaxResponses == 3
MaxDiffLines == 4
MaxComments == 2

\* ------------------------------------------------------- program constants
max_retries == 3

None == <<>>
Some(v) == <<v>>

Tasks == {"t1", "t2", "t3"}

SHAs == {"sha1"}

\* ------------------------------------------------------------------- paths
APy == <<"a", ".", "p", "y">>
BPy == <<"b", ".", "p", "y">>
CPy == <<"c", ".", "p", "y">>
Css == <<"s", ".", "c", "s", "s">>
PyC == <<"x", ".", "p", "y", "c">>

PySuffix == <<".", "p", "y">>

\* str.endswith
EndsWith(s, suffix) ==
    /\ Len(s) >= Len(suffix)
    /\ SubSeq(s, Len(s) - Len(suffix) + 1, Len(s)) = suffix

\* A plausible slip of the filter: "contains .py" instead of "ends with .py".
filter_python_files_contains(files) ==
    SelectSeq(files, LAMBDA p : \E i \in 1..(Len(p) - 2) : SubSeq(p, i, i + 2) = PySuffix)

\* DiffParser.filter_python_files: order-preserving filter on the path suffix.
filter_python_files(files) ==
    SelectSeq(files, LAMBDA p : EndsWith(p, PySuffix))

\* The file lists (FileDiff.path of each parsed section, in diff order) that
\* the pull request's diff can parse to.
Diffs ==
    { <<Css, PyC>>,
      <<APy>>,
      <<Css, APy, BPy, CPy>> }

\* The diffs explored when executions run concurrently.
SmallDiffs == { <<Css, APy>> }

\* ------------------------------------------------------------ LLM responses
PreviouslyReviewed == <<"Previously reviewed.">>
NoPythonFiles == <<"No Python files to review in this PR.">>
NoFilesReviewed == <<"No files reviewed.">>
AllFilesLookGood == <<"All files look good!">>
FileReviewsHeader == <<"### File Reviews">>

\* InlineComment as far as the pipeline looks at it.
Comment(path, line) == [path |-> path, line |-> line]

\* The shapes of ReviewResponse the backend can answer with for one file.
ReviewResponse(summary, verdict, comments, tokens_used, model, cost_usd) ==
    [summary |-> summary, verdict |-> verdict, comments |-> comments,
     tokens_used |-> tokens_used, model |-> model, cost_usd |-> cost_usd]

BackendResponses(path) ==
    { ReviewResponse(<<"ok">>, "approve", <<>>, 2, "m1", 1),
      ReviewResponse(<<>>, "request_changes",
                     <<Comment(path, 2), Comment(path, 1)>>, 3, "m2", 2) }

\* ------------------------------------------------------------- aggregation
\* A slip of the collection: a comment already collected is not added again.
RECURSIVE ConcatComments_dedup(_)
ConcatComments_dedup(responses) ==
    IF responses = <<>> THEN <<>>
    ELSE LET rest == ConcatComments_dedup(Tail(responses))
         IN  SelectSeq(Head(responses).comments,
                       LAMBDA c : \A k \in 1..Len(rest) : rest[k] # c) \o rest

\* `for response in responses: all_comments.extend(response.comments)`.
RECURSIVE ConcatComments(_)
ConcatComments(responses) ==
    IF responses = <<>> THEN <<>>
    ELSE Head(responses).comments \o ConcatComments(Tail(responses))

\* A slip of the sum: the last file's value stands for all.
SumOf_last(responses, field) ==
    IF responses = <<>> THEN 0 ELSE responses[Len(responses)][field]

\* `sum(r.tokens_used for r in responses)`, `sum(r.cost_usd for r in responses)`.
RECURSIVE SumOf(_, _)
SumOf(responses, field) ==
    IF responses = <<>> THEN 0
    ELSE Head(responses)[field] + SumOf(Tail(responses), field)

\* A slip of the reduction: only the first file's verdict is looked at.
HasVerdict_first(responses, v) == responses[1].verdict = v

\* `"request_changes" in verdicts`, `"comment" in verdicts`.
HasVerdict(responses, v) == \E i \in 1..Len(responses) : responses[i].verdict = v

\* A slip of the summary: every file gets an entry, commented or not.
RECURSIVE FileSummaries_all(_)
FileSummaries_all(responses) ==
    IF responses = <<>> THEN <<>>
    ELSE LET r == Head(responses)
         IN  << <<"**", IF r.comments # <<>> THEN r.comments[1].path ELSE <<>>,
                  "**: ", r.summary>> >> \o FileSummaries_all(Tail(responses))

\* `for response in responses: if response.comments:
\*      summaries.append(f"**{file_path}**: {response.summary}")` with
\* `file_path = response.comments[0].path`.
RECURSIVE FileSummaries(_)
FileSummaries(responses) ==
    IF responses = <<>> THEN <<>>
    ELSE LET r == Head(responses)
         IN  (IF r.comments # <<>>
              THEN << <<"**", r.comments[1].path, "**: ", r.summary>> >>
              ELSE <<>>) \o FileSummaries(Tail(responses))

\* A slip of the empty branch: nothing reviewed counts as an approval.
AggregateEmpty_approves == ReviewResponse(NoFilesReviewed, "approve", <<>>, 0, "", 0)

\* `if not responses: return ReviewResponse(summary="No files reviewed.",
\*      verdict="comment", comments=[], tokens_used=0, model="", cost_usd=0.0)`.
AggregateEmpty == ReviewResponse(NoFilesReviewed, "comment", <<>>, 0, "", 0)

\* ReviewPipeline._aggregate_responses
_aggregate_responses(responses) ==
    IF responses = <<>>
    THEN AggregateEmpty
    ELSE LET overall_verdict ==
                 IF HasVerdict(responses, "request_changes") THEN "request_changes"
                 ELSE IF HasVerdict(responses, "comment") THEN "comment"
                 ELSE "approve"
             summaries == FileSummaries(responses)
             combined_summary ==
                 IF Len(responses) = 1 THEN responses[1].summary
                 ELSE IF summaries # <<>> THEN FileReviewsHeader \o summaries
                 ELSE AllFilesLookGood
         IN  ReviewResponse(combined_summary, overall_verdict,
                            ConcatComments(responses),
                            SumOf(responses, "tokens_used"),
                            responses[1].model,
                            SumOf(responses, "cost_usd"))

\* ----------------------------------------------------------- reviews table
\* A row of the reviews table (src/db/models.py, class Review) restricted to
\* the columns the pipeline reads or writes.  Column defaults as declared.
NewReview(id, head_sha, status) ==
    [id |-> id, head_sha |-> head_sha, status |-> status,
     verdict |-> None, summary |-> None,
     files_reviewed |-> 0, total_comments |-> 0,
     model_used |-> None,
     tokens_input |-> 0, tokens_output |-> 0, tokens_total |-> 0,
     cost_usd |-> 0, github_review_id |-> None, error_message |-> None]

\* A slip of the listener: the total is left as it was stored.
update_review_totals_keeps(target) == target

\* The before_update listener: tokens_total is recomputed on every UPDATE.
update_review_totals(target) ==
    [target EXCEPT !.tokens_total = target.tokens_input + target.tokens_output]

\* PipelineResult without pr_number / pr_title / latency_ms.
PipelineResult(review_id, files_reviewed, total_comments, verdict, summary, model_used, total_tokens, total_cost_usd, review_posted, github_review_id) ==
    [review_id |-> review_id, files_reviewed |-> files_reviewed,
     total_comments |-> total_comments, verdict |-> verdict,
     summary |-> summary, model_used |-> model_used,
     total_tokens |-> total_tokens, total_cost_usd |-> total_cost_usd,
     review_posted |-> review_posted, github_review_id |-> github_review_id]

\* Python's `x or default` on an optional value whose falsy payload is `empty`.
OrElse(opt, empty, default) ==
    IF opt = None \/ opt[1] = empty THEN default ELSE opt[1]

\* The PipelineResult built from an existing row, pipeline.py lines 130-144.
ReplayResult(existing) ==
    PipelineResult(Some(existing.id),
                   existing.files_reviewed,
                   existing.total_comments,
                   OrElse(existing.verdict, "", "comment"),
                   OrElse(existing.summary, <<>>, PreviouslyReviewed),
                   OrElse(existing.model_used, "", ""),
                   existing.tokens_total,
                   existing.cost_usd,
                   existing.github_review_id # None,
                   existing.github_review_id)

\* --------------------------------------------------------------- exceptions
\* What the host's client raises.  A token the host rejects is rejected at the
\* first request of a run, get_pull_request; the later requests fail with
\* the other two.
HostErrors == {"GitHubNotFoundError", "GitHubAuthenticationError", "GitHubError"}
dont_autoretry_for == {"GitHubNotFoundError", "GitHubAuthenticationError"}

Exc(kind, cause) == [kind |-> kind, cause |-> cause]
NoExc == Exc("", "")

\* What create_review's answer can carry under the key "id".
HostReviewIds == {None, Some(7)}

\* -------------------------------------------------------------------- state
VARIABLES
    max_files_per_review,  \* settings.max_files_per_review
    worker_concurrency,    \* how many executions may be in flight at once
    pr_diff,               \* head SHA -> file list of the pull request's diff
    reviews,               \* committed rows of the reviews table
    review_comments,       \* committed rows of review_comments: <<review_id, comments>>
    task,                  \* per task: call arguments, state, retries
    run,                   \* per task: locals of its current execute() call
    session,               \* per task: rows flushed but not committed
    create_review_calls,   \* head SHA -> number of create_review invocations
    router,                \* one LLMRouter.review_code call: its inputs and locals
    aggregation,           \* one _aggregate_responses call: its input and result
    parsing,               \* one DiffParser.parse call: its input and result
    llm,                   \* one provider call: its inputs and its outcome
    webhook                \* one webhook delivery: the request and its response

vars == <<max_files_per_review, worker_concurrency, pr_diff, reviews,
          review_comments, task, run, session, create_review_calls, router,
          aggregation, parsing, llm, webhook>>

\* No DiffParser.parse call is being followed.
IdleParsing == [pc |-> "idle"]

\* No provider call is being followed.
IdleLLM == [pc |-> "idle"]

\* No webhook delivery is being followed.
IdleWebhook == [pc |-> "idle"]

\* No _aggregate_responses call is being followed.
IdleAggregation == [pc |-> "idle"]

\* No LLMRouter.review_code call is being followed.
IdleRouter == [pc |-> "idle"]

Call(op, arg) == [op |-> op, arg |-> arg]

EmptySession == [reviews |-> {}, comments |-> <<>>]

\* Locals of execute() at entry, pipeline.py lines 99-100.
FreshRun ==
    [pc |-> "get_pull_request",
     head_sha |-> "",
     review_db_id |-> None,
     file_diffs |-> <<>>,
     i |-> 0,
     file_content |-> None,
     all_responses |-> <<>>,
     tokens_input |-> 0,
     tokens_output |-> 0,
     aggregated |-> None,
     github_review_id |-> None,
     result |-> None,
     exc |-> NoExc,
     replayed |-> FALSE,
     calls |-> <<>>]

IdleRun == [FreshRun EXCEPT !.pc = "idle"]

\* The arguments an execution is started with.
Params ==
    { p \in [session : BOOLEAN, celery : BOOLEAN,
             post_review : BOOLEAN, skip_if_reviewed : BOOLEAN] :
        p.celery => p.session }

Running == { t \in Tasks : task[t].state = "running" }

\* What the webhook receiver enqueues: process_review.delay(post_review=True,
\* skip_if_reviewed=True), webhooks.py lines 107-113.
WebhookParams ==
    [session |-> TRUE, celery |-> TRUE, post_review |-> TRUE,
     skip_if_reviewed |-> TRUE]

NewTask(params) ==
    [params |-> params, state |-> "queued", retries |-> 0, result |-> None]

\* One worker: the executions follow each other.  Task t2 is a webhook
\* delivery, t1 is any caller of execute, on any of the diffs; t3 is not
\* enqueued.
InitSequential ==
    /\ worker_concurrency = 1
    /\ max_files_per_review \in {1, MaxFilesSetting}
    /\ pr_diff \in [SHAs -> Diffs]
    /\ \E p \in Params :
          task = [t \in Tasks |->
                    IF t = "t1" THEN NewTask(p)
                    ELSE IF t = "t2" THEN NewTask(WebhookParams)
                    ELSE [NewTask(WebhookParams) EXCEPT !.state = "absent"]]

\* What the synchronous API endpoint calls execute with: trigger_review with
\* async_mode=false, reviews.py lines 125-133 (skip_if_reviewed defaults to
\* True, the session comes from get_db, nothing retries).
ApiParams(post_review) ==
    [session |-> TRUE, celery |-> FALSE, post_review |-> post_review,
     skip_if_reviewed |-> TRUE]

\* The executions interleave: the tasks are synchronous API requests for
\* the same pull request, two of them served at the same time.
InitConcurrent ==
    /\ worker_concurrency = 2
    /\ max_files_per_review = 1
    /\ pr_diff \in [SHAs -> SmallDiffs]
    /\ task = [t \in Tasks |-> NewTask(ApiParams(TRUE))]

Init ==
    /\ InitSequential \/ InitConcurrent
    /\ reviews = {}
    /\ review_comments = {}
    /\ run = [t \in Tasks |-> IdleRun]
    /\ session = [t \in Tasks |-> EmptySession]
    /\ create_review_calls = [s \in SHAs |-> 0]
    /\ router = IdleRouter
    /\ aggregation = IdleAggregation
    /\ parsing = IdleParsing
    /\ llm = IdleLLM
    /\ webhook = IdleWebhook

\* ------------------------------------------------------------------ helpers
Log(t, op, arg) == Append(run[t].calls, Call(op, arg))

HasSession(t) == task[t].params.session

\* Rows a query of task t's session sees: committed rows and its own.
Visible(t) == reviews \cup session[t].reviews

\* `if self.session is not None and review_db_id:`
Persisting(t, r) == HasSession(t) /\ r.review_db_id # None

\* A slip of the handler: the failing step is left to be tried again.
Raise_and_retry(t, r, exc) == [r EXCEPT !.exc = exc]

\* The except clause of execute(), pipeline.py lines 324-329: with a record
\* to mark, await mark_failed first; the exception is re-raised after it.
Raise(t, r, exc) ==
    IF Persisting(t, r)
    THEN [r EXCEPT !.pc = "mark_failed", !.exc = exc]
    ELSE [r EXCEPT !.pc = "raised", !.exc = exc]

\* An exception raised outside the try block leaves execute() at once.
RaiseOutsideTry(r, exc) == [r EXCEPT !.pc = "raised", !.exc = exc]

\* BaseRepository.get_by_id on the session's own rows.
GetById(t, id) == CHOOSE row \in session[t].reviews : row.id = id

\* BaseRepository.update: the row with this id is replaced by its updated
\* version and flushed, which fires the before_update listener.
UpdateRow(t, id, updated) ==
    [session EXCEPT ![t].reviews =
        { IF row.id = id THEN update_review_totals(updated) ELSE row : row \in @ }]

\* ------------------------------------------------------------------ actions
\* A worker (or a direct caller) starts executing the task: process_review
\* opens a fresh session and calls pipeline.execute.
StartExecution(t) ==
    /\ task[t].state = "queued"
    /\ Cardinality(Running) < worker_concurrency
    /\ task' = [task EXCEPT ![t].state = "running"]
    /\ run' = [run EXCEPT ![t] = FreshRun]
    /\ session' = [session EXCEPT ![t] = EmptySession]
    /\ UNCHANGED <<llm, webhook, parsing, aggregation, router, max_files_per_review, worker_concurrency, pr_diff, reviews,
                   review_comments, create_review_calls>>

\* A slip of the idempotency guard: the lookup is made whatever the flag says.
IdempotencyBranch_ignores_flag(has_session, skip_if_reviewed) ==
    IF ~has_session THEN "get_pull_request_diff" ELSE "get_by_sha"

\* A slip of the guard: the session is not looked at.
IdempotencyBranch_ignores_session(has_session, skip_if_reviewed) ==
    IF skip_if_reviewed THEN "get_by_sha" ELSE "create"

\* Where execute() goes after the PR is fetched, pipeline.py lines 114-146:
\* without a session straight to the diff; with one, to the lookup when
\* skip_if_reviewed is set and to the record creation otherwise.
IdempotencyBranch(has_session, skip_if_reviewed) ==
    IF ~has_session THEN "get_pull_request_diff"
    ELSE IF skip_if_reviewed THEN "get_by_sha"
    ELSE "create"

\* A slip of the handler: the host's fetch error is wrapped like a submission
\* error.
FetchError_wrapped(kind) == Exc("ReviewError", kind)

\* What the caller of execute() gets when a fetch raised: the host's own
\* exception (line 110 has no handler, the handler of lines 324-329 ends in
\* a bare `raise`).
FetchError(kind) == Exc(kind, "")

\* Step 1, pipeline.py line 110.  Not inside the try block.  The log keeps
\* what the host raised, if it did.
GetPullRequest(t) ==
    /\ task[t].state = "running"
    /\ run[t].pc = "get_pull_request"
    /\ LET r == [run[t] EXCEPT !.calls = Log(t, "get_pull_request", None)]
       IN  \/ \E kind \in HostErrors :
                 run' = [run EXCEPT ![t] =
                    RaiseOutsideTry([run[t] EXCEPT !.calls =
                                        Log(t, "get_pull_request", Some(kind))],
                                    FetchError(kind))]
           \/ \E sha \in SHAs :
                 run' = [run EXCEPT ![t] =
                    [r EXCEPT !.head_sha = sha,
                              !.pc = IdempotencyBranch(HasSession(t),
                                         task[t].params.skip_if_reviewed)]]
    /\ UNCHANGED <<llm, webhook, parsing, aggregation, router, max_files_per_review, worker_concurrency, pr_diff, reviews,
                   review_comments, task, session, create_review_calls>>

\* ReviewRepository.get_by_sha: scalar_one_or_none() over the non-deleted
\* rows of the repository with this head SHA, as the session sees them.
GetByShaMatches(t, head_sha) == { row \in Visible(t) : row.head_sha = head_sha }

\* The check a slip would make: any finished row counts as already reviewed.
AlreadyReviewed_is_complete(existing) == existing.status \in {"completed", "failed"}

\* `existing.status == ReviewStatus.COMPLETED.value`, pipeline.py line 123.
AlreadyReviewed(existing) == existing.status = "completed"

\* Step 2, pipeline.py lines 121-144 (skip_if_reviewed is true).
GetBySha(t) ==
    /\ task[t].state = "running"
    /\ run[t].pc = "get_by_sha"
    /\ LET matches == GetByShaMatches(t, run[t].head_sha)
           r == [run[t] EXCEPT !.calls = Log(t, "get_by_sha", <<>>)]
       IN  IF Cardinality(matches) > 1
           THEN run' = [run EXCEPT ![t] =
                          RaiseOutsideTry(r, Exc("MultipleResultsFound", ""))]
           ELSE IF \E existing \in matches : AlreadyReviewed(existing)
           THEN LET existing == CHOOSE row \in matches : TRUE
                IN  run' = [run EXCEPT ![t] =
                              [r EXCEPT !.pc = "returned",
                                        !.replayed = TRUE,
                                        !.result = Some(ReplayResult(existing))]]
           ELSE run' = [run EXCEPT ![t] = [r EXCEPT !.pc = "create"]]
    /\ UNCHANGED <<llm, webhook, parsing, aggregation, router, max_files_per_review, worker_concurrency, pr_diff, reviews,
                   review_comments, task, session, create_review_calls>>

\* The id the table's autoincrement hands out: one above every id in use.
AllRows == reviews \cup UNION { session[t].reviews : t \in Tasks }
Max(S) == CHOOSE x \in S : \A y \in S : y <= x
next_id == 1 + Max({0} \cup { row.id : row \in AllRows })

\* pipeline.py lines 146-157: review_repo.create(status=in_progress).
CreateRecord(t) ==
    /\ task[t].state = "running"
    /\ run[t].pc = "create"
    /\ session' = [session EXCEPT ![t].reviews =
                      @ \cup {NewReview(next_id, run[t].head_sha, "in_progress")}]
    /\ run' = [run EXCEPT ![t] =
                  [@ EXCEPT !.review_db_id = Some(next_id),
                            !.pc = "get_pull_request_diff",
                            !.calls = Log(t, "create", <<>>)]]
    /\ UNCHANGED <<llm, webhook, parsing, aggregation, router, max_files_per_review, worker_concurrency, pr_diff, reviews,
                   review_comments, task, create_review_calls>>

\* A slip of the limit: keeps one file too many.
Truncate_off_by_one(file_diffs, limit) ==
    IF Len(file_diffs) > limit THEN SubSeq(file_diffs, 1, limit + 1) ELSE file_diffs

\* pipeline.py lines 200-206.
Truncate(file_diffs, limit) ==
    IF Len(file_diffs) > limit THEN SubSeq(file_diffs, 1, limit) ELSE file_diffs

\* The PipelineResult of the no-Python-files branch, pipeline.py lines 168-180.
NoFilesResult(review_db_id) ==
    PipelineResult(review_db_id, 0, 0, "approve", NoPythonFiles, "", 0, 0,
                   FALSE, None)

\* Steps 3-5, pipeline.py lines 161-206: fetch the diff, parse, filter,
\* branch on "no files", truncate.  Everything after the await is synchronous.
GetPullRequestDiff(t) ==
    /\ task[t].state = "running"
    /\ run[t].pc = "get_pull_request_diff"
    /\ LET r == [run[t] EXCEPT !.calls = Log(t, "get_pull_request_diff", <<>>)]
       IN  \/ \E kind \in HostErrors \ {"GitHubAuthenticationError"} :
                 run' = [run EXCEPT ![t] =
                    Raise(t, [run[t] EXCEPT !.calls =
                                 Log(t, "get_pull_request_diff", Some(kind))],
                          FetchError(kind))]
           \/ LET file_diffs == filter_python_files(pr_diff[r.head_sha])
              IN  IF file_diffs = <<>>
                  THEN run' = [run EXCEPT ![t] =
                         [r EXCEPT !.result = Some(NoFilesResult(r.review_db_id)),
                                   !.pc = IF Persisting(t, r)
                                          THEN "mark_completed_no_files"
                                          ELSE "returned"]]
                  ELSE run' = [run EXCEPT ![t] =
                         [r EXCEPT !.file_diffs =
                                       Truncate(file_diffs, max_files_per_review),
                                   !.i = 1,
                                   !.pc = "get_file_content"]]
    /\ UNCHANGED <<llm, webhook, parsing, aggregation, router, max_files_per_review, worker_concurrency, pr_diff, reviews,
                   review_comments, task, session, create_review_calls>>

\* What mark_completed writes, reviews.py lines 153-167.
Completed(row, verdict, summary, files_reviewed, total_comments, model_used, tokens_input, tokens_output, cost_usd, github_review_id) ==
    [row EXCEPT !.status = "completed",
                !.verdict = Some(verdict),
                !.summary = Some(summary),
                !.files_reviewed = files_reviewed,
                !.total_comments = total_comments,
                !.model_used = Some(model_used),
                !.tokens_input = tokens_input,
                !.tokens_output = tokens_output,
                !.cost_usd = cost_usd,
                !.github_review_id = github_review_id]

\* pipeline.py lines 183-197: mark_completed of the no-files branch.
MarkCompletedNoFiles(t) ==
    /\ task[t].state = "running"
    /\ run[t].pc = "mark_completed_no_files"
    /\ session' = UpdateRow(t, run[t].review_db_id[1],
                     Completed(GetById(t, run[t].review_db_id[1]), "approve",
                               NoPythonFiles, 0, 0, "", 0, 0, 0, None))
    /\ run' = [run EXCEPT ![t] =
                  [@ EXCEPT !.pc = "returned",
                            !.calls = Log(t, "mark_completed", <<>>)]]
    /\ UNCHANGED <<llm, webhook, parsing, aggregation, router, max_files_per_review, worker_concurrency, pr_diff, reviews,
                   review_comments, task, create_review_calls>>

\* A slip of the loop: the files are taken from the end of the list.
CurrentFile_reversed(r) == r.file_diffs[Len(r.file_diffs) - r.i + 1]

\* `for file_diff in file_diffs`, pipeline.py line 213: the file of the
\* current iteration.
CurrentFile(r) == r.file_diffs[r.i]

\* A slip of the handler: the fetch error is not caught and aborts the run.
ContentFetchFailed_propagates(t, r) == Raise(t, r, Exc("GitHubError", ""))

\* The except clause of the content fetch, pipeline.py lines 221-227: the
\* error is logged and the file is reviewed without content.
ContentFetchFailed(t, r) == [r EXCEPT !.file_content = None, !.pc = "review_code"]

\* Step 6a, pipeline.py lines 217-227: best-effort fetch of the file content.
GetFileContent(t) ==
    /\ task[t].state = "running"
    /\ run[t].pc = "get_file_content"
    /\ LET path == CurrentFile(run[t])
           r == [run[t] EXCEPT !.calls = Log(t, "get_file_content", path)]
       IN  \/ run' = [run EXCEPT ![t] =
                         [r EXCEPT !.file_content = Some("content"),
                                   !.pc = "review_code"]]
           \/ run' = [run EXCEPT ![t] = ContentFetchFailed(t, r)]
    /\ UNCHANGED <<llm, webhook, parsing, aggregation, router, max_files_per_review, worker_concurrency, pr_diff, reviews,
                   review_comments, task, session, create_review_calls>>

\* A slip of the result: review_posted derived from the id, as the replay does.
FullResult_posted_from_id(t, r) ==
    LET aggregated == r.aggregated[1]
    IN  PipelineResult(r.review_db_id, Len(r.file_diffs),
                       Len(aggregated.comments), aggregated.verdict,
                       aggregated.summary, aggregated.model,
                       aggregated.tokens_used, aggregated.cost_usd,
                       r.github_review_id # None,
                       r.github_review_id)

\* The PipelineResult of a full run, pipeline.py lines 308-322.
FullResult(t, r) ==
    LET aggregated == r.aggregated[1]
    IN  PipelineResult(r.review_db_id,
                       Len(r.file_diffs),
                       Len(aggregated.comments),
                       aggregated.verdict,
                       aggregated.summary,
                       aggregated.model,
                       aggregated.tokens_used,
                       aggregated.cost_usd,
                       task[t].params.post_review,
                       r.github_review_id)

\* Where execute() suspends next once the review is aggregated and, if asked
\* for, posted: at mark_completed with a record, else it returns.
AfterPosting(t, r) ==
    IF Persisting(t, r)
    THEN [r EXCEPT !.pc = "mark_completed"]
    ELSE [r EXCEPT !.pc = "returned", !.result = Some(FullResult(t, r))]

\* Once the loop is over, steps 7-8 run without suspending (lines 247-260).
AfterLoop(t, r) ==
    LET ra == [r EXCEPT !.aggregated = Some(_aggregate_responses(r.all_responses))]
    IN  IF task[t].params.post_review
        THEN [ra EXCEPT !.pc = "create_review"]
        ELSE AfterPosting(t, ra)

\* A slip of the loop: it stops one file early.
LoopDone_early(r) == r.i >= Len(r.file_diffs)

\* `for file_diff in file_diffs` is exhausted.
LoopDone(r) == r.i > Len(r.file_diffs)

\* Step 6b, pipeline.py lines 230-244: the review request for the current
\* file goes to the backend; a failure aborts the run.
ReviewCode(t) ==
    /\ task[t].state = "running"
    /\ run[t].pc = "review_code"
    /\ LET path == CurrentFile(run[t])
           r == [run[t] EXCEPT
                   !.calls = Log(t, "review_code", path)]
       IN  \/ run' = [run EXCEPT ![t] =
                         Raise(t, r, Exc("LLMProviderUnavailableError", ""))]
           \/ \E response \in BackendResponses(path) :
                 LET r2 == [r EXCEPT
                              !.all_responses = Append(@, response),
                              !.tokens_input = @ + (response.tokens_used \div 2),
                              !.tokens_output = @ + (response.tokens_used \div 2),
                              !.i = @ + 1]
                 IN  run' = [run EXCEPT ![t] =
                               IF LoopDone(r2)
                               THEN AfterLoop(t, r2)
                               ELSE [r2 EXCEPT !.pc = "get_file_content"]]
    /\ UNCHANGED <<llm, webhook, parsing, aggregation, router, max_files_per_review, worker_concurrency, pr_diff, reviews,
                   review_comments, task, session, create_review_calls>>

\* A slip of the handler: the host's error is re-raised as it is.
SubmissionError_unwrapped(kind) == Exc(kind, "")

\* `raise ReviewError(f"Failed to post review: {e}") from e`, line 267.
SubmissionError(kind) == Exc("ReviewError", kind)

\* Step 9, pipeline.py lines 260-267.  The log keeps what the host answered
\* under "id" (None when the answer has no id, and when the call raised).
CreateReview(t) ==
    /\ task[t].state = "running"
    /\ run[t].pc = "create_review"
    /\ create_review_calls' =
          [create_review_calls EXCEPT ![run[t].head_sha] =
              IF @ < MaxCallsCounted THEN @ + 1 ELSE @]
    /\ \/ \E kind \in HostErrors \ {"GitHubAuthenticationError"} :
             run' = [run EXCEPT ![t] =
                       Raise(t, [run[t] EXCEPT
                                   !.calls = Log(t, "create_review", None)],
                             SubmissionError(kind))]
       \/ \E id \in HostReviewIds :
             run' = [run EXCEPT ![t] =
                       AfterPosting(t, [run[t] EXCEPT
                                          !.calls = Log(t, "create_review", id),
                                          !.github_review_id = id])]
    /\ UNCHANGED <<llm, webhook, parsing, aggregation, router, max_files_per_review, worker_concurrency, pr_diff, reviews,
                   review_comments, task, session>>

\* Step 10, pipeline.py lines 270-286.
MarkCompleted(t) ==
    /\ task[t].state = "running"
    /\ run[t].pc = "mark_completed"
    /\ LET r == run[t]
           aggregated == r.aggregated[1]
       IN  /\ session' = UpdateRow(t, r.review_db_id[1],
                            Completed(GetById(t, r.review_db_id[1]),
                                      aggregated.verdict, aggregated.summary,
                                      Len(r.file_diffs), Len(aggregated.comments),
                                      aggregated.model, r.tokens_input,
                                      r.tokens_output, aggregated.cost_usd,
                                      r.github_review_id))
           /\ run' = [run EXCEPT ![t] =
                        IF aggregated.comments # <<>>
                        THEN [r EXCEPT !.pc = "create_many",
                                       !.calls = Log(t, "mark_completed", <<>>)]
                        ELSE [r EXCEPT !.pc = "returned",
                                       !.calls = Log(t, "mark_completed", <<>>),
                                       !.result = Some(FullResult(t, r))]]
    /\ UNCHANGED <<llm, webhook, parsing, aggregation, router, max_files_per_review, worker_concurrency, pr_diff, reviews,
                   review_comments, task, create_review_calls>>

\* pipeline.py lines 289-300: the comments are inserted; the insert can fail.
CreateMany(t) ==
    /\ task[t].state = "running"
    /\ run[t].pc = "create_many"
    /\ LET r == [run[t] EXCEPT !.calls = Log(t, "create_many", <<>>)]
       IN  \/ /\ session' = [session EXCEPT ![t].comments =
                                r.aggregated[1].comments]
              /\ run' = [run EXCEPT ![t] =
                           [r EXCEPT !.pc = "returned",
                                     !.result = Some(FullResult(t, r))]]
           \/ /\ run' = [run EXCEPT ![t] = Raise(t, r, Exc("SQLAlchemyError", ""))]
              /\ UNCHANGED session
    /\ UNCHANGED <<llm, webhook, parsing, aggregation, router, max_files_per_review, worker_concurrency, pr_diff, reviews,
                   review_comments, task, create_review_calls>>

\* A slip of mark_failed: the error text is stored, the status is not.
Failed_keeps_status(row, error_message) ==
    [row EXCEPT !.error_message = Some(error_message)]

\* What mark_failed writes, reviews.py lines 175-180.
Failed(row, error_message) ==
    [row EXCEPT !.status = "failed", !.error_message = Some(error_message)]

\* pipeline.py lines 324-329: mark the record failed, then re-raise.
MarkFailed(t) ==
    /\ task[t].state = "running"
    /\ run[t].pc = "mark_failed"
    /\ session' = UpdateRow(t, run[t].review_db_id[1],
                     Failed(GetById(t, run[t].review_db_id[1]), run[t].exc.kind))
    /\ run' = [run EXCEPT ![t] =
                  [@ EXCEPT !.pc = "raised",
                            !.calls = Log(t, "mark_failed",
                                          [id |-> run[t].review_db_id[1],
                                           error_message |-> run[t].exc.kind])]]
    /\ UNCHANGED <<llm, webhook, parsing, aggregation, router, max_files_per_review, worker_concurrency, pr_diff, reviews,
                   review_comments, task, create_review_calls>>

\* execute() returned: the caller commits its session (review_tasks.py line
\* 119, get_session_context) and the task is done.
Commit(t) ==
    /\ task[t].state = "running"
    /\ run[t].pc = "returned"
    /\ reviews' = reviews \cup session[t].reviews
    /\ review_comments' =
          IF session[t].comments = <<>> THEN review_comments
          ELSE review_comments \cup {<<run[t].review_db_id[1], session[t].comments>>}
    /\ session' = [session EXCEPT ![t] = EmptySession]
    /\ run' = [run EXCEPT ![t] = IdleRun]
    /\ task' = [task EXCEPT ![t].state = "success", ![t].retries = 0,
                             ![t].result = run[t].result]
    /\ UNCHANGED <<llm, webhook, parsing, aggregation, router, max_files_per_review, worker_concurrency, pr_diff, create_review_calls>>

\* A slip of the retry policy: every exception is retried.
ShouldRetry_any_exception(t) ==
    /\ task[t].params.celery
    /\ task[t].retries < max_retries

\* Celery's autoretry_for=(Exception,), dont_autoretry_for and max_retries.
ShouldRetry(t) ==
    /\ task[t].params.celery
    /\ run[t].exc.kind \notin dont_autoretry_for
    /\ task[t].retries < max_retries

\* execute() raised: the caller rolls its session back (review_tasks.py line
\* 137); Celery re-queues the task or records the failure.
Rollback(t) ==
    /\ task[t].state = "running"
    /\ run[t].pc = "raised"
    /\ session' = [session EXCEPT ![t] = EmptySession]
    /\ run' = [run EXCEPT ![t] = IdleRun]
    /\ task' = [task EXCEPT ![t] =
                  IF ShouldRetry(t)
                  THEN [@ EXCEPT !.state = "queued", !.retries = @ + 1]
                  ELSE [@ EXCEPT !.state = "failure", !.retries = 0]]
    /\ UNCHANGED <<llm, webhook, parsing, aggregation, router, max_files_per_review, worker_concurrency, pr_diff, reviews,
                   review_comments, create_review_calls>>

Next ==
    \E t \in Tasks :
        \/ StartExecution(t)
        \/ GetPullRequest(t)
        \/ GetBySha(t)
        \/ CreateRecord(t)
        \/ GetPullRequestDiff(t)
        \/ MarkCompletedNoFiles(t)
        \/ GetFileContent(t)
        \/ ReviewCode(t)
        \/ CreateReview(t)
        \/ MarkCompleted(t)
        \/ CreateMany(t)
        \/ MarkFailed(t)
        \/ Commit(t)
        \/ Rollback(t)

Spec == Init /\ [][Next]_vars

\* The values of the status column (class ReviewStatus).
ReviewStatus == {"pending", "in_progress", "completed", "failed"}

\* execute() as a function of the table it is handed: the reviews table
\* already holds one row for the head SHA, in any status, and the executions
\* follow each other.
InitStored ==
    /\ InitSequential
    /\ \E status \in ReviewStatus : reviews = {NewReview(1, "sha1", status)}
    /\ review_comments = {}
    /\ run = [t \in Tasks |-> IdleRun]
    /\ session = [t \in Tasks |-> EmptySession]
    /\ create_review_calls = [s \in SHAs |-> 0]
    /\ router = IdleRouter
    /\ aggregation = IdleAggregation
    /\ parsing = IdleParsing
    /\ llm = IdleLLM
    /\ webhook = IdleWebhook

SpecStored == InitStored /\ [][Next]_vars

\* ---------------------------------------------------------------- LLMRouter
\* ProviderName, and the providers _get_provider can build.
ProviderNames == {"anthropic", "openai", "ollama"}
KnownProviders == {"anthropic", "ollama"}

\* `fallback_order = ["anthropic", "ollama"]`, router.py line 95.
fallback_order == <<"anthropic", "ollama">>

\* The errors a provider's review_code raises.
ProviderErrors == {"LLMError", "LLMProviderUnavailableError"}

\* How a provider behaves during one call: is_available() is false, or it
\* is true and review_code answers, or it is true and review_code raises.
Behaviours == {"unavailable", "completes"} \cup ProviderErrors

\* The response of a provider: its model field tells which one answered.
ProviderResponse(name) == ReviewResponse(<<"ok">>, "approve", <<>>, 2, name, 1)

\* One pass through `llm = self._get_provider(name); if llm.is_available():
\* return await llm.review_code(request)` (lines 76-83 and 101-108): the calls
\* made on the provider and how the pass ends.
TryProvider(name, behaviour) ==
    IF name \notin KnownProviders
    THEN [calls |-> <<>>, outcome |-> "raised",
          exc |-> "LLMProviderUnavailableError"]
    ELSE IF behaviour[name] = "unavailable"
    THEN [calls |-> <<Call("is_available", name)>>, outcome |-> "unavailable",
          exc |-> ""]
    ELSE IF behaviour[name] = "completes"
    THEN [calls |-> <<Call("is_available", name), Call("review_code", name)>>,
          outcome |-> "returned", exc |-> ""]
    ELSE [calls |-> <<Call("is_available", name), Call("review_code", name)>>,
          outcome |-> "raised", exc |-> behaviour[name]]

\* The inputs of one LLMRouter.review_code call, at its entry.
RouterCalls ==
    { [pc |-> "primary",
       default_provider |-> d,
       provider |-> p,
       fallback_enabled |-> f,
       behaviour |-> b,
       provider_name |-> "",
       k |-> 0,
       calls |-> <<>>,
       result |-> None,
       exc |-> ""] :
         d \in ProviderNames,
         p \in {None} \cup { Some(n) : n \in ProviderNames },
         f \in BOOLEAN,
         b \in [KnownProviders -> Behaviours] }

\* A router call on its own; the pipeline is at rest.
InitRouter ==
    /\ router \in RouterCalls
    /\ aggregation = IdleAggregation
    /\ parsing = IdleParsing
    /\ llm = IdleLLM
    /\ webhook = IdleWebhook
    /\ max_files_per_review = 1
    /\ worker_concurrency = 1
    /\ pr_diff = [s \in SHAs |-> <<>>]
    /\ reviews = {}
    /\ review_comments = {}
    /\ task = [t \in Tasks |-> [NewTask(WebhookParams) EXCEPT !.state = "absent"]]
    /\ run = [t \in Tasks |-> IdleRun]
    /\ session = [t \in Tasks |-> EmptySession]
    /\ create_review_calls = [s \in SHAs |-> 0]

\* `raise LLMProviderUnavailableError("No LLM providers available")`, line 117.
NoProvidersAvailable(r) ==
    [r EXCEPT !.pc = "raised", !.exc = "LLMProviderUnavailableError"]

\* router.py lines 72-94: the primary provider.
RouterPrimary ==
    /\ router.pc = "primary"
    /\ LET provider_name == OrElse(router.provider, "", router.default_provider)
           try == TryProvider(provider_name, router.behaviour)
           r == [router EXCEPT !.provider_name = provider_name,
                               !.calls = @ \o try.calls]
       IN  router' =
             IF try.outcome = "returned"
             THEN [r EXCEPT !.pc = "returned",
                            !.result = Some(ProviderResponse(provider_name))]
             ELSE IF try.outcome = "raised" /\ ~router.fallback_enabled
             THEN [r EXCEPT !.pc = "raised", !.exc = try.exc]
             ELSE IF router.fallback_enabled
             THEN [r EXCEPT !.pc = "fallback", !.k = 1]
             ELSE NoProvidersAvailable(r)
    /\ UNCHANGED <<llm, webhook, parsing, aggregation, max_files_per_review, worker_concurrency,
                   pr_diff, reviews, review_comments, task, run, session,
                   create_review_calls>>

\* A slip of the loop: the provider just tried is not skipped.
SkipFallback_never(fallback_name, provider_name) == FALSE

\* `if fallback_name == provider_name: continue`, router.py lines 97-98.
SkipFallback(fallback_name, provider_name) == fallback_name = provider_name

\* router.py lines 96-117: one iteration of the fallback loop; after the
\* last one the call fails.
RouterFallback ==
    /\ router.pc = "fallback"
    /\ LET fallback_name == fallback_order[router.k]
           skip == SkipFallback(fallback_name, router.provider_name)
           try == TryProvider(fallback_name, router.behaviour)
           r == IF skip THEN router
                ELSE [router EXCEPT !.calls = @ \o try.calls]
       IN  router' =
             IF ~skip /\ try.outcome = "returned"
             THEN [r EXCEPT !.pc = "returned",
                            !.result = Some(ProviderResponse(fallback_name))]
             ELSE IF router.k < Len(fallback_order)
             THEN [r EXCEPT !.k = @ + 1]
             ELSE NoProvidersAvailable(r)
    /\ UNCHANGED <<llm, webhook, parsing, aggregation, max_files_per_review, worker_concurrency,
                   pr_diff, reviews, review_comments, task, run, session,
                   create_review_calls>>

NextRouter == RouterPrimary \/ RouterFallback

SpecRouter == InitRouter /\ [][NextRouter]_vars

\* ------------------------------------------------- _aggregate_responses alone
\* The per-file results _aggregate_responses is applied to: every verdict,
\* with no comment, with comments out of line order, with a comment equal to
\* one of another file, with the same comment twice.
PerFileResults ==
    { ReviewResponse(summary, verdict, comments, 2, "m1", 1) :
        summary \in { <<"ok">>, <<"nit">> },
        verdict \in {"approve", "comment", "request_changes"},
        comments \in { <<>>,
                       <<Comment(APy, 2), Comment(APy, 1)>>,
                       <<Comment(APy, 1)>>,
                       <<Comment(BPy, 1), Comment(BPy, 1)>> } }

RECURSIVE SeqsUpTo(_, _)
SeqsUpTo(S, n) ==
    IF n = 0 THEN {<<>>}
    ELSE LET shorter == SeqsUpTo(S, n - 1)
         IN  shorter \cup { Append(q, x) : q \in shorter, x \in S }

\* An _aggregate_responses call on its own; pipeline and router are at rest.
InitAggregate ==
    /\ \E responses \in SeqsUpTo(PerFileResults, MaxResponses) :
          aggregation = [pc |-> "called", responses |-> responses,
                         result |-> None]
    /\ router = IdleRouter
    /\ parsing = IdleParsing
    /\ llm = IdleLLM
    /\ webhook = IdleWebhook
    /\ max_files_per_review = 1
    /\ worker_concurrency = 1
    /\ pr_diff = [s \in SHAs |-> <<>>]
    /\ reviews = {}
    /\ review_comments = {}
    /\ task = [t \in Tasks |-> [NewTask(WebhookParams) EXCEPT !.state = "absent"]]
    /\ run = [t \in Tasks |-> IdleRun]
    /\ session = [t \in Tasks |-> EmptySession]
    /\ create_review_calls = [s \in SHAs |-> 0]

\* The call returns.
Aggregate ==
    /\ aggregation.pc = "called"
    /\ aggregation' = [aggregation EXCEPT
                          !.pc = "returned",
                          !.result = Some(_aggregate_responses(aggregation.responses))]
    /\ UNCHANGED <<llm, webhook, parsing, router, max_files_per_review, worker_concurrency, pr_diff,
                   reviews, review_comments, task, run, session,
                   create_review_calls>>

SpecAggregate == InitAggregate /\ [][Aggregate]_vars

\* ------------------------------------------------------------- diff parser
\* src/services/review/diff_parser.py.  A line of diff text is a sequence of
\* characters; a text is the sequence of its lines, what split("\n") returns,
\* so the empty text is the one empty line.

\* str.startswith
StartsWith(s, prefix) ==
    /\ Len(s) >= Len(prefix)
    /\ SubSeq(s, 1, Len(prefix)) = prefix

\* s[m:]: the characters of s from position m on.
From(s, m) == SubSeq(s, m, Len(s))

\* Whether the characters of lit stand in s from position i on.
At(s, i, lit) ==
    /\ i >= 1
    /\ i + Len(lit) - 1 <= Len(s)
    /\ SubSeq(s, i, i + Len(lit) - 1) = lit

Whitespace == {" "}

Digit == {"0", "1", "2", "3", "4", "5", "6", "7", "8", "9"}

DigitValue(c) ==
    CASE c = "0" -> 0 [] c = "1" -> 1 [] c = "2" -> 2 [] c = "3" -> 3
      [] c = "4" -> 4 [] c = "5" -> 5 [] c = "6" -> 6 [] c = "7" -> 7
      [] c = "8" -> 8 [] c = "9" -> 9

\* int() of a string of decimal digits.
RECURSIVE int(_)
int(s) ==
    IF s = <<>> THEN 0
    ELSE 10 * int(SubSeq(s, 1, Len(s) - 1)) + DigitValue(s[Len(s)])

\* `\d+` from position i: the position after the longest run of digits.
RECURSIVE DigitsEnd(_, _)
DigitsEnd(s, i) ==
    IF i <= Len(s) /\ s[i] \in Digit THEN DigitsEnd(s, i + 1) ELSE i

DevNull == <<"/", "d", "e", "v", "/", "n", "u", "l", "l">>

HeaderPrefix == <<"d", "i", "f", "f", " ", "-", "-", "g", "i", "t", " ", "a", "/">>

\* FILE_HEADER_PATTERN = ^diff --git a/(.*) b/(.*)$ : the groups of the
\* match, None when the line does not match.  The first group is greedy, so
\* the split is at the last " b/".
FILE_HEADER_PATTERN(line) ==
    LET from == Len(HeaderPrefix) + 1
        seps == { k \in from..Len(line) : At(line, k, <<" ", "b", "/">>) }
    IN  IF StartsWith(line, HeaderPrefix) /\ seps # {}
        THEN Some(<<SubSeq(line, from, Max(seps) - 1), From(line, Max(seps) + 3)>>)
        ELSE None

\* OLD_FILE_PATTERN = ^--- (?:a/)?(.*)$
OLD_FILE_PATTERN(line) ==
    IF StartsWith(line, <<"-", "-", "-", " ">>)
    THEN Some(IF At(line, 5, <<"a", "/">>) THEN From(line, 7) ELSE From(line, 5))
    ELSE None

\* NEW_FILE_PATTERN = ^\+\+\+ (?:b/)?(.*)$
NEW_FILE_PATTERN(line) ==
    IF StartsWith(line, <<"+", "+", "+", " ">>)
    THEN Some(IF At(line, 5, <<"b", "/">>) THEN From(line, 7) ELSE From(line, 5))
    ELSE None

\* HUNK_HEADER_PATTERN = ^@@ -(\d+)(?:,(\d+))? \+(\d+)(?:,(\d+))? @@(.*)$ :
\* the five groups, an absent count being None.
HUNK_HEADER_PATTERN(line) ==
    LET s1 == 5
        e1 == DigitsEnd(line, s1)
        c1 == At(line, e1, <<",">>) /\ DigitsEnd(line, e1 + 1) > e1 + 1
        e2 == IF c1 THEN DigitsEnd(line, e1 + 1) ELSE e1
        s3 == e2 + 2
        e3 == DigitsEnd(line, s3)
        c2 == At(line, e3, <<",">>) /\ DigitsEnd(line, e3 + 1) > e3 + 1
        e4 == IF c2 THEN DigitsEnd(line, e3 + 1) ELSE e3
    IN  IF /\ StartsWith(line, <<"@", "@", " ", "-">>)
           /\ e1 > s1
           /\ At(line, e2, <<" ", "+">>)
           /\ e3 > s3
           /\ At(line, e4, <<" ", "@", "@">>)
        THEN Some([old_start |-> SubSeq(line, s1, e1 - 1),
                   old_count |-> IF c1 THEN Some(SubSeq(line, e1 + 1, e2 - 1)) ELSE None,
                   new_start |-> SubSeq(line, s3, e3 - 1),
                   new_count |-> IF c2 THEN Some(SubSeq(line, e3 + 1, e4 - 1)) ELSE None,
                   rest |-> From(line, e4 + 3)])
        ELSE None

\* class DiffLine
DiffLine(type, content, old_line_no, new_line_no) ==
    [type |-> type, content |-> content,
     old_line_no |-> old_line_no, new_line_no |-> new_line_no]

\* class Hunk
Hunk(old_start, old_count, new_start, new_count, header) ==
    [old_start |-> old_start, old_count |-> old_count,
     new_start |-> new_start, new_count |-> new_count,
     header |-> header, lines |-> <<>>]

\* class FileDiff
FileDiff(path, status, old_path) ==
    [path |-> path, status |-> status, old_path |-> old_path, hunks |-> <<>>]

\* The locals of parse before its loop.  current_hunk is the position of the
\* hunk in current_file.hunks that the name refers to.
ParseLocals ==
    [files |-> <<>>, current_file |-> None, current_hunk |-> None,
     old_line_no |-> 0, new_line_no |-> 0, raised |-> None]

\* A slip of the guards: a marker or hunk header acts without an open file.
HasCurrentFile_unguarded(st) == TRUE

\* `... and current_file` of lines 136, 144 and 154.
HasCurrentFile(st) == st.current_file # None

\* An attribute access on current_file: AttributeError when it is None.
OnCurrentFile(st, updated) ==
    IF st.current_file = None
    THEN [st EXCEPT !.raised = Some("AttributeError")]
    ELSE [st EXCEPT !.current_file = Some(updated)]

\* A slip of the header branch: the section that was open is dropped.
OpenFile_drops_previous(st, groups) ==
    [st EXCEPT !.current_file = Some(FileDiff(groups[2], "modified",
                                              IF groups[1] # groups[2]
                                              THEN Some(groups[1]) ELSE None)),
               !.current_hunk = None]

\* Lines 118-133: a file header closes the open section and opens a new one.
OpenFile(st, groups) ==
    [st EXCEPT !.files = IF st.current_file # None
                         THEN Append(@, st.current_file[1]) ELSE @,
               !.current_file = Some(FileDiff(groups[2], "modified",
                                              IF groups[1] # groups[2]
                                              THEN Some(groups[1]) ELSE None)),
               !.current_hunk = None]

\* Lines 136-141: the old-file marker.
OldMarker(st, old_path) ==
    IF old_path = DevNull
    THEN OnCurrentFile(st, [st.current_file[1] EXCEPT !.status = "added"])
    ELSE st

\* Lines 144-151: the new-file marker; `elif current_file.old_path:` is
\* false for None and for the empty string.
NewMarker(st, new_path) ==
    IF new_path = DevNull
    THEN OnCurrentFile(st, [st.current_file[1] EXCEPT !.status = "deleted"])
    ELSE IF st.current_file = None
    THEN [st EXCEPT !.raised = Some("AttributeError")]
    ELSE IF st.current_file[1].old_path \notin {None, Some(<<>>)}
    THEN OnCurrentFile(st, [st.current_file[1] EXCEPT !.status = "renamed"])
    ELSE st

\* A slip of the hunk header: the cursors keep running from the last hunk.
OpenHunk_keeps_cursors(st, g, line) ==
    LET hunk == Hunk(int(g.old_start),
                     IF g.old_count # None THEN int(g.old_count[1]) ELSE 1,
                     int(g.new_start),
                     IF g.new_count # None THEN int(g.new_count[1]) ELSE 1,
                     line)
        opened == OnCurrentFile(st, [st.current_file[1] EXCEPT !.hunks = Append(@, hunk)])
    IN  IF opened.raised # None THEN opened
        ELSE [opened EXCEPT !.current_hunk = Some(Len(opened.current_file[1].hunks))]

\* Lines 154-173: a hunk header opens a hunk on the current file and sets the
\* cursors to its start lines.
OpenHunk(st, g, line) ==
    LET hunk == Hunk(int(g.old_start),
                     IF g.old_count # None THEN int(g.old_count[1]) ELSE 1,
                     int(g.new_start),
                     IF g.new_count # None THEN int(g.new_count[1]) ELSE 1,
                     line)
        opened == OnCurrentFile(st, [st.current_file[1] EXCEPT !.hunks = Append(@, hunk)])
    IN  IF opened.raised # None THEN opened
        ELSE [opened EXCEPT !.current_hunk = Some(Len(opened.current_file[1].hunks)),
                            !.old_line_no = hunk.old_start,
                            !.new_line_no = hunk.new_start]

\* `current_hunk.lines.append(...)`.
AppendLine(st, diff_line) ==
    [st EXCEPT !.current_file[1].hunks[st.current_hunk[1]].lines = Append(@, diff_line)]

\* A slip of the addition: it also carries the old cursor.
AdditionLine_with_old(st, line) ==
    DiffLine("addition", Tail(line), Some(st.old_line_no), Some(st.new_line_no))

\* Lines 178-184.
AdditionLine(st, line) ==
    DiffLine("addition", Tail(line), None, Some(st.new_line_no))

\* Lines 188-194.
DeletionLine(st, line) ==
    DiffLine("deletion", Tail(line), Some(st.old_line_no), None)

\* Lines 198-205.
ContextLine(st, line) ==
    DiffLine("context", Tail(line), Some(st.old_line_no), Some(st.new_line_no))

\* A slip of the prefix test: a "+++" line counts as an addition.
IsAddition_any_plus(line) == StartsWith(line, <<"+">>)

\* `line.startswith("+") and not line.startswith("+++")`.
IsAddition(line) ==
    StartsWith(line, <<"+">>) /\ ~StartsWith(line, <<"+", "+", "+">>)

\* `line.startswith("-") and not line.startswith("---")`.
IsDeletion(line) ==
    StartsWith(line, <<"-">>) /\ ~StartsWith(line, <<"-", "-", "-">>)

\* Lines 176-208: a line while a hunk is open.
ContentLine(st, line) ==
    IF IsAddition(line)
    THEN [AppendLine(st, AdditionLine(st, line)) EXCEPT !.new_line_no = @ + 1]
    ELSE IF IsDeletion(line)
    THEN [AppendLine(st, DeletionLine(st, line)) EXCEPT !.old_line_no = @ + 1]
    ELSE IF StartsWith(line, <<" ">>)
    THEN [AppendLine(st, ContextLine(st, line)) EXCEPT !.old_line_no = @ + 1,
                                                      !.new_line_no = @ + 1]
    ELSE st

\* One iteration of the loop of parse, lines 114-210.
ParseLine(st, line) ==
    LET file_match == FILE_HEADER_PATTERN(line)
        old_match == OLD_FILE_PATTERN(line)
        new_match == NEW_FILE_PATTERN(line)
        hunk_match == HUNK_HEADER_PATTERN(line)
    IN  IF file_match # None THEN OpenFile(st, file_match[1])
        ELSE IF old_match # None /\ HasCurrentFile(st) THEN OldMarker(st, old_match[1])
        ELSE IF new_match # None /\ HasCurrentFile(st) THEN NewMarker(st, new_match[1])
        ELSE IF hunk_match # None /\ HasCurrentFile(st) THEN OpenHunk(st, hunk_match[1], line)
        ELSE IF st.current_hunk # None /\ line # <<>> THEN ContentLine(st, line)
        ELSE st

\* The loop of parse over lines[i..]; an exception ends it.
RECURSIVE ParseLines(_, _, _)
ParseLines(st, lines, i) ==
    IF i > Len(lines) \/ st.raised # None THEN st
    ELSE ParseLines(ParseLine(st, lines[i]), lines, i + 1)

\* `not diff_text.strip()`: the text has whitespace and newlines only.
IsBlank(lines) ==
    \A i \in 1..Len(lines) : \A j \in 1..Len(lines[i]) : lines[i][j] \in Whitespace

\* What a call ends with: the list returned or the exception raised.
Returned(files) == [raised |-> None, files |-> files]
Raised(kind) == [raised |-> Some(kind), files |-> <<>>]

\* DiffParser.parse
parse(lines) ==
    IF IsBlank(lines) THEN Returned(<<>>)
    ELSE LET st == ParseLines(ParseLocals, lines, 1)
         IN  IF st.raised # None THEN Raised(st.raised[1])
             ELSE Returned(IF st.current_file # None
                           THEN Append(st.files, st.current_file[1])
                           ELSE st.files)

\* A slip of the per-hunk list: context lines are listed too.
get_new_line_numbers_with_context(hunk) ==
    LET added == SelectSeq(hunk.lines, LAMBDA l : l.new_line_no # None)
    IN  [k \in 1..Len(added) |-> added[k].new_line_no[1]]

\* Hunk.get_new_line_numbers
get_new_line_numbers(hunk) ==
    LET added == SelectSeq(hunk.lines,
                           LAMBDA l : l.type = "addition" /\ l.new_line_no # None)
    IN  [k \in 1..Len(added) |-> added[k].new_line_no[1]]

\* sorted(set(xs))
RECURSIVE SortedSet(_)
SortedSet(S) ==
    IF S = {} THEN <<>>
    ELSE LET least == CHOOSE x \in S : \A y \in S : x <= y
         IN  <<least>> \o SortedSet(S \ {least})

RECURSIVE ExtendAll(_)
ExtendAll(hunks) ==
    IF hunks = <<>> THEN <<>>
    ELSE get_new_line_numbers(Head(hunks)) \o ExtendAll(Tail(hunks))

\* FileDiff.get_changed_line_numbers
get_changed_line_numbers(file) ==
    LET line_numbers == ExtendAll(file.hunks)
    IN  SortedSet({ line_numbers[k] : k \in 1..Len(line_numbers) })

\* `sum(1 for hunk in self.hunks for line in hunk.lines if line.type == ...)`.
RECURSIVE CountType(_, _)
CountType(hunks, type) ==
    IF hunks = <<>> THEN 0
    ELSE Len(SelectSeq(Head(hunks).lines, LAMBDA l : l.type = type))
         + CountType(Tail(hunks), type)

\* FileDiff.additions, FileDiff.deletions
additions(file) == CountType(file.hunks, "addition")
deletions(file) == CountType(file.hunks, "deletion")

\* ----- the texts parse is called on
HeaderSame == HeaderPrefix \o APy \o <<" ", "b", "/">> \o APy
HeaderRename == HeaderPrefix \o APy \o <<" ", "b", "/">> \o BPy
OldA == <<"-", "-", "-", " ", "a", "/">> \o APy
OldNull == <<"-", "-", "-", " ">> \o DevNull
NewB == <<"+", "+", "+", " ", "b", "/">> \o BPy
NewNull == <<"+", "+", "+", " ">> \o DevNull
\* @@ -1,2 +1,3 @@
Hunk1 == <<"@", "@", " ", "-", "1", ",", "2", " ", "+", "1", ",", "3", " ", "@", "@">>
\* @@ -12 +10 @@ f
Hunk10 == <<"@", "@", " ", "-", "1", "2", " ", "+", "1", "0", " ", "@", "@", " ", "f">>
Add == <<"+", "x">>
Del == <<"-", "x">>
Ctx == <<" ", "x">>
NoNewline == <<"\\", " ", "N", "o">>
Blank == <<>>
Plus3 == <<"+", "+", "+", "x">>
Minus3 == <<"-", "-", "-", "x">>
\* A `diff --git` line without the a/ and b/ prefixes (git diff --no-prefix).
HeaderNoPrefix == <<"d", "i", "f", "f", " ", "-", "-", "g", "i", "t", " ">> \o APy \o <<" ">> \o APy

DiffLines ==
    { HeaderSame, HeaderRename, OldNull, NewB, NewNull, Hunk1, Hunk10,
      Add, Del, Ctx, NoNewline, Blank }

\* Longer texts: two hunks out of order with a repeated hunk, the "+++" and
\* "---" lines without a space, the shapes of the unit tests, and two
\* sections of which the second has a line before its hunk header.
LongDiffs ==
    { <<HeaderSame, Hunk10, Add, Hunk1, Add, Hunk1, Add, Ctx>>,
      <<HeaderSame, OldA, NewB, Hunk1, Ctx, Plus3, Add, Minus3, Del, NoNewline, Add>>,
      <<HeaderNoPrefix, OldNull, Hunk1, Add>>,
      <<HeaderSame, Hunk10, Del, NoNewline, Add>>,
      <<HeaderSame, OldA, NewB, Hunk1, Ctx, Del, Add, Add, Blank, Ctx>>,
      <<HeaderSame, OldA, NewB, Hunk1, Del, Add, HeaderRename, OldA, NewB, Hunk1, Del, Add>>,
      <<HeaderSame, Hunk1, Add, Ctx, HeaderRename, Del, Hunk10, Del, NoNewline>> }

\* A parse call on its own, on a text of at most MaxDiffLines lines or on one
\* of the longer ones; pipeline, router and aggregation are at rest.
InitParse ==
    /\ \E lines \in (SeqsUpTo(DiffLines, MaxDiffLines) \ {<<>>}) \cup LongDiffs :
          parsing = [pc |-> "called", lines |-> lines, result |-> None,
                     read |-> <<>>]
    /\ aggregation = IdleAggregation
    /\ router = IdleRouter
    /\ llm = IdleLLM
    /\ webhook = IdleWebhook
    /\ max_files_per_review = 1
    /\ worker_concurrency = 1
    /\ pr_diff = [s \in SHAs |-> <<>>]
    /\ reviews = {}
    /\ review_comments = {}
    /\ task = [t \in Tasks |-> [NewTask(WebhookParams) EXCEPT !.state = "absent"]]
    /\ run = [t \in Tasks |-> IdleRun]
    /\ session = [t \in Tasks |-> EmptySession]
    /\ create_review_calls = [s \in SHAs |-> 0]

\* DiffLine.__str__: the prefix of the line's type, then its content.
DiffLine_str(diff_line) ==
    LET prefix == CASE diff_line.type = "context" -> " "
                    [] diff_line.type = "addition" -> "+"
                    [] diff_line.type = "deletion" -> "-"
    IN  <<prefix>> \o diff_line.content

\* A slip of the reconstruction: the hunk headers are left out.
RECURSIVE to_patch_string_without_headers(_)
to_patch_string_without_headers(file) ==
    IF file.hunks = <<>> THEN <<>>
    ELSE [k \in 1..Len(file.hunks[1].lines) |-> DiffLine_str(file.hunks[1].lines[k])]
         \o to_patch_string_without_headers([file EXCEPT !.hunks = Tail(@)])

\* FileDiff.to_patch_string: for each hunk its header and then its lines;
\* the text joined with "\n" is kept as the sequence of its lines.
RECURSIVE to_patch_string(_)
to_patch_string(file) ==
    IF file.hunks = <<>> THEN <<>>
    ELSE <<file.hunks[1].header>>
         \o [k \in 1..Len(file.hunks[1].lines) |-> DiffLine_str(file.hunks[1].lines[k])]
         \o to_patch_string([file EXCEPT !.hunks = Tail(@)])

\* The properties of a FileDiff that a caller reads off the returned list,
\* and the diff the pipeline builds its ReviewRequest with.
Properties(file) ==
    [additions |-> additions(file), deletions |-> deletions(file),
     changed_line_numbers |-> get_changed_line_numbers(file),
     diff |-> to_patch_string(file)]

\* The call returns or raises; the caller reads the properties of each file.
Parse ==
    /\ parsing.pc = "called"
    /\ LET outcome == parse(parsing.lines)
       IN  parsing' = [parsing EXCEPT
                          !.pc = IF outcome.raised # None THEN "raised" ELSE "returned",
                          !.result = Some(outcome),
                          !.read = [f \in 1..Len(outcome.files) |->
                                       Properties(outcome.files[f])]]
    /\ UNCHANGED <<llm, webhook, aggregation, router, max_files_per_review, worker_concurrency,
                   pr_diff, reviews, review_comments, task, run, session,
                   create_review_calls>>

SpecParse == InitParse /\ [][Parse]_vars


\* ------------------------------------------------------------ LLM providers
\* JSON scalars as the decoder returns them: None, an int, a str.
JNull == [kind |-> "null", s |-> "", n |-> 0]
JNum(n) == [kind |-> "number", s |-> "", n |-> n]
JStr(s) == [kind |-> "string", s |-> s, n |-> 0]

\* What a call returns: a value, or the exception that left it.
Value(v) == [raised |-> None, value |-> Some(v)]
Raises(kind) == [raised |-> Some(kind), value |-> None]

\* int(x) of a decoded scalar: an int is itself, a str of digits is its
\* number and any other str is a ValueError, None is a TypeError.  The strs
\* of the inputs are "20" and words.
py_int(v) ==
    CASE v.kind = "number" -> Value(v.n)
      [] v.kind = "string" -> IF v.s = "20" THEN Value(20) ELSE Raises("ValueError")
      [] v.kind = "null" -> Raises("TypeError")

\* str.upper() and str.lower() on the strs of the inputs.
upper(s) ==
    CASE s = "bug" -> "BUG"
      [] s = "warning" -> "WARNING"
      [] s = "fatal" -> "FATAL"
      [] OTHER -> s

lower(s) ==
    CASE s = "APPROVE" -> "approve"
      [] OTHER -> s

\* class CommentCategory, class CommentSeverity
CommentCategory ==
    {"BUG", "SECURITY", "PERFORMANCE", "STYLE", "SUGGESTION", "DOCUMENTATION"}
CommentSeverity == {"CRITICAL", "WARNING", "INFO"}

\* class InlineComment
InlineComment(path, line, body, category, severity) ==
    [path |-> path, line |-> line, body |-> body,
     category |-> category, severity |-> severity]

\* `CommentCategory(c.get("category", "SUGGESTION").upper())`, and the same
\* for the severity: the default when the key is absent, AttributeError on a
\* value without upper(), ValueError on a name the Enum does not have.
EnumOf(field, default, members) ==
    IF field = None THEN Value(default)
    ELSE IF field[1].kind # "string" THEN Raises("AttributeError")
    ELSE IF upper(field[1].s) \notin members THEN Raises("ValueError")
    ELSE Value(upper(field[1].s))

\* The body of the try block for one entry of data["comments"]: the keyword
\* arguments of InlineComment are evaluated in order.
BuildComment(c, file_path) ==
    IF c.kind # "object" THEN Raises("TypeError")
    ELSE IF c.line = None THEN Raises("KeyError")
    ELSE IF py_int(c.line[1]).raised # None THEN Raises(py_int(c.line[1]).raised[1])
    ELSE IF c.body = None THEN Raises("KeyError")
    ELSE LET category == EnumOf(c.category, "SUGGESTION", CommentCategory)
             severity == EnumOf(c.severity, "INFO", CommentSeverity)
         IN  IF category.raised # None THEN Raises(category.raised[1])
             ELSE IF severity.raised # None THEN Raises(severity.raised[1])
             ELSE Value(InlineComment(file_path, py_int(c.line[1]).value[1],
                                      c.body[1].s, category.value[1],
                                      severity.value[1]))

\* `except (KeyError, ValueError)`
Skipped == {"KeyError", "ValueError"}

\* The loop over data.get("comments", []): an entry whose construction raises
\* KeyError or ValueError is skipped, any other exception leaves the loop.
RECURSIVE BuildComments(_, _, _)
BuildComments(entries, file_path, comments) ==
    IF entries = <<>> THEN Value(comments)
    ELSE LET built == BuildComment(Head(entries), file_path)
         IN  IF built.raised = None
             THEN BuildComments(Tail(entries), file_path,
                                Append(comments, built.value[1]))
             ELSE IF built.raised[1] \in Skipped
             THEN BuildComments(Tail(entries), file_path, comments)
             ELSE Raises(built.raised[1])

\* `verdict = data.get("verdict", "comment").lower()` and the check of it.
NormalVerdict(field) ==
    IF field = None THEN Value("comment")
    ELSE IF field[1].kind # "string" THEN Raises("AttributeError")
    ELSE IF lower(field[1].s) \notin {"approve", "request_changes", "comment"}
    THEN Value("comment")
    ELSE Value(lower(field[1].s))

\* The dict _parse_response returns.
Parsed(summary, verdict, comments) ==
    [summary |-> summary, verdict |-> verdict, comments |-> comments]

\* "Validate and transform", the same lines in both providers: data.get on
\* a decoded value that is no dict is an AttributeError.
Transform(data, file_path) ==
    IF data.kind # "object" THEN Raises("AttributeError")
    ELSE LET entries == IF data.comments = None THEN <<>> ELSE data.comments[1]
             built == BuildComments(entries, file_path, <<>>)
             verdict == NormalVerdict(data.verdict)
         IN  IF built.raised # None THEN Raises(built.raised[1])
             ELSE IF verdict.raised # None THEN Raises(verdict.raised[1])
             ELSE Value(Parsed(IF data.summary = None
                               THEN "No summary provided."
                               ELSE data.summary[1],
                               verdict.value[1], built.value[1]))

\* A response text: a document on its own ("bare"), inside a ```json fence
\* after some prose ("fenced"), or between prose without a fence
\* ("embedded").  The string handed to json.loads is the document, with or
\* without prose around it.
JsonStr(prose, doc) == [prose |-> prose, doc |-> doc]

\* AnthropicProvider._parse_response, the extraction: the fenced part if
\* there is a fence, else the whole text stripped.
anthropic_json_str(response_text) ==
    IF response_text.shape = "fenced" THEN JsonStr(FALSE, response_text.doc)
    ELSE JsonStr(response_text.shape = "embedded", response_text.doc)

\* OllamaProvider._parse_response, the extraction: the fenced part, else the
\* text from the first "{" to the last "}", else the whole text stripped.
ollama_json_str(response_text) ==
    IF response_text.shape = "fenced" THEN JsonStr(FALSE, response_text.doc)
    ELSE IF response_text.doc.kind \in {"object", "garbage"}
    THEN JsonStr(FALSE, response_text.doc)
    ELSE JsonStr(response_text.shape = "embedded", response_text.doc)

\* json.loads: the decoded document, or JSONDecodeError on prose and on a
\* document that is no JSON.
json_loads(json_str) ==
    IF json_str.prose \/ json_str.doc.kind = "garbage"
    THEN Raises("JSONDecodeError")
    ELSE Value(json_str.doc)

\* AnthropicProvider._parse_response
anthropic_parse_response(response_text, file_path) ==
    LET data == json_loads(anthropic_json_str(response_text))
    IN  IF data.raised # None THEN Raises("LLMResponseParseError")
        ELSE Transform(data.value[1], file_path)

\* The fallback dict of OllamaProvider._parse_response.
Fallback ==
    Parsed("Unable to parse model response. Please review the changes manually.",
           "comment", <<>>)

\* OllamaProvider._parse_response
ollama_parse_response(response_text, file_path) ==
    LET data == json_loads(ollama_json_str(response_text))
    IN  IF data.raised # None THEN Value(Fallback)
        ELSE Transform(data.value[1], file_path)

\* The fields of the dataclass ReviewResponse, and the keyword arguments
\* OllamaProvider.review_code constructs it with (ollama.py lines 132-142).
ReviewResponseFields ==
    {"summary", "verdict", "comments", "tokens_used", "model", "cost_usd"}
OllamaKeywords ==
    ReviewResponseFields \cup {"tokens_input", "tokens_output", "latency_ms"}

\* The generated __init__ of a dataclass: a keyword that is no field is a
\* TypeError.
dataclass_init(fields, keywords, instance) ==
    IF keywords \subseteq fields THEN Value(instance) ELSE Raises("TypeError")

\* OllamaProvider.review_code: the availability check, the POST, the parse
\* and the construction of the response; httpx.HTTPError becomes LLMError and
\* every other exception is re-raised as it is.
ollama_review_code(available, http, response_text, file_path) ==
    IF ~available THEN Raises("LLMProviderUnavailableError")
    ELSE IF http = "HTTPError" THEN Raises("LLMError")
    ELSE LET parsed == ollama_parse_response(response_text, file_path)
         IN  IF parsed.raised # None THEN Raises(parsed.raised[1])
             ELSE dataclass_init(ReviewResponseFields, OllamaKeywords,
                     ReviewResponse(parsed.value[1].summary,
                                    parsed.value[1].verdict,
                                    parsed.value[1].comments, 2, "ollama", 0))

\* An entry of data["comments"] and a decoded document: a key that is absent
\* is None, a key that is there is Some(value).
Entry(kind, line, body, category, severity) ==
    [kind |-> kind, line |-> line, body |-> body,
     category |-> category, severity |-> severity]

Doc(kind, summary, verdict, comments) ==
    [kind |-> kind, summary |-> summary, verdict |-> verdict,
     comments |-> comments]

\* The entries of the inputs: two well-formed ones, the malformed ones of
\* the unit test and of the loop's comment, and entries of other types.
WellFormed1 ==
    Entry("object", Some(JNum(10)), Some(JStr("Valid comment")),
          Some(JStr("bug")), Some(JStr("WARNING")))
WellFormed2 ==
    Entry("object", Some(JStr("20")), Some(JStr("Another valid comment")), None, None)
MissingLine == Entry("object", None, Some(JStr("Missing line number")), None, None)
BadLine ==
    Entry("object", Some(JStr("not_a_number")), Some(JStr("Invalid line")), None, None)
MissingBody == Entry("object", Some(JNum(10)), None, None, None)
BadCategory ==
    Entry("object", Some(JNum(10)), Some(JStr("b")), Some(JStr("NITPICK")), None)
BadSeverity ==
    Entry("object", Some(JNum(10)), Some(JStr("b")), None, Some(JStr("fatal")))
NullLine == Entry("object", Some(JNull), Some(JStr("b")), None, None)
NullCategory == Entry("object", Some(JNum(10)), Some(JStr("b")), Some(JNull), None)
NotAnObject == Entry("string", None, None, None, None)

Entries ==
    { WellFormed1, WellFormed2, MissingLine, BadLine, MissingBody, BadCategory,
      BadSeverity, NullLine, NullCategory, NotAnObject }

\* The verdict key of the inputs: absent, the three verdicts (one in capitals),
\* a word that is none of them, and null.
Verdicts ==
    { None, Some(JStr("approve")), Some(JStr("APPROVE")),
      Some(JStr("request_changes")), Some(JStr("invalid_verdict")), Some(JNull) }

\* A JSON array and a text that is no JSON.
ArrayDoc == Doc("array", None, None, None)
Garbage == Doc("garbage", None, None, None)

\* The documents with at most n comment entries.
Docs(n) ==
    { Doc("object", summary, verdict, comments) :
        summary \in { None, Some("Test") },
        verdict \in Verdicts,
        comments \in { None } \cup { Some(entries) : entries \in SeqsUpTo(Entries, n) } }
    \cup { ArrayDoc, Garbage }

Shapes == {"bare", "fenced", "embedded"}

ProviderCall(op, available, http, shape, doc, file_path) ==
    [pc |-> "called", op |-> op, available |-> available, http |-> http,
     response_text |-> [shape |-> shape, doc |-> doc],
     file_path |-> file_path, result |-> None]

\* A provider call on its own: _parse_response of either provider on a text
\* with at most MaxComments comment entries, or OllamaProvider.review_code
\* with the server down, failing or answering; everything else is at rest.
InitLLM ==
    /\ \/ \E op \in {"anthropic._parse_response", "ollama._parse_response"},
             shape \in Shapes, doc \in Docs(MaxComments), file_path \in {APy, BPy} :
             llm = ProviderCall(op, TRUE, "ok", shape, doc, file_path)
       \/ \E available \in BOOLEAN, http \in {"ok", "HTTPError"},
             shape \in Shapes, doc \in Docs(1) :
             llm = ProviderCall("ollama.review_code", available, http, shape, doc, APy)
    /\ webhook = IdleWebhook
    /\ parsing = IdleParsing
    /\ aggregation = IdleAggregation
    /\ router = IdleRouter
    /\ max_files_per_review = 1
    /\ worker_concurrency = 1
    /\ pr_diff = [s \in SHAs |-> <<>>]
    /\ reviews = {}
    /\ review_comments = {}
    /\ task = [t \in Tasks |-> [NewTask(WebhookParams) EXCEPT !.state = "absent"]]
    /\ run = [t \in Tasks |-> IdleRun]
    /\ session = [t \in Tasks |-> EmptySession]
    /\ create_review_calls = [s \in SHAs |-> 0]

\* The call returns or raises.
Finish(outcome) ==
    /\ llm' = [llm EXCEPT !.pc = IF outcome.raised # None THEN "raised" ELSE "returned",
                          !.result = Some(outcome)]
    /\ UNCHANGED <<webhook, parsing, aggregation, router, max_files_per_review,
                   worker_concurrency, pr_diff, reviews, review_comments, task,
                   run, session, create_review_calls>>

AnthropicParseResponse ==
    /\ llm.pc = "called"
    /\ llm.op = "anthropic._parse_response"
    /\ Finish(anthropic_parse_response(llm.response_text, llm.file_path))

OllamaParseResponse ==
    /\ llm.pc = "called"
    /\ llm.op = "ollama._parse_response"
    /\ Finish(ollama_parse_response(llm.response_text, llm.file_path))

OllamaReviewCode ==
    /\ llm.pc = "called"
    /\ llm.op = "ollama.review_code"
    /\ Finish(ollama_review_code(llm.available, llm.http, llm.response_text,
                                 llm.file_path))

NextLLM == AnthropicParseResponse \/ OllamaParseResponse \/ OllamaReviewCode

SpecLLM == InitLLM /\ [][NextLLM]_vars

\* ------------------------------------------------------------ webhook
\* `"sha256=" + hmac.new(secret, payload, hashlib.sha256).hexdigest()`: the
\* value depends on the key and on the bytes signed, and on nothing else.
hmac_sha256(secret, payload) == [key |-> secret, over |-> payload]

\* A slip of the check: every request is let through.
verify_github_signature_always(github_webhook_secret, payload, signature) == TRUE

\* verify_github_signature: without a configured secret every request
\* passes; with one, the header must be there and equal the expected value.
verify_github_signature(github_webhook_secret, payload, signature) ==
    IF github_webhook_secret = None THEN TRUE
    ELSE IF signature = None THEN FALSE
    ELSE hmac_sha256(github_webhook_secret[1], payload) = signature[1]

\* `repo_full_name.split("/", 1)`: the text before the first "/" and the
\* text after it.
split_once(s) ==
    LET at == CHOOSE i \in 1..Len(s) :
                 /\ s[i] = "/"
                 /\ \A j \in 1..(i - 1) : s[j] # "/"
    IN  <<SubSeq(s, 1, at - 1), SubSeq(s, at + 1, Len(s))>>

\* What the receiver answers, and what it has handed to process_review.delay.
WebhookResponse(status_code, enqueued) ==
    [status_code |-> status_code, enqueued |-> enqueued]

\* github_webhook: the signature check, the ping answer, and the queuing of
\* a review for an opened, synchronized or reopened pull request whose
\* payload names the repository as owner/repo and carries the number.
github_webhook(github_webhook_secret, x_github_event, x_hub_signature_256, body, payload) ==
    IF ~verify_github_signature(github_webhook_secret, body, x_hub_signature_256)
    THEN WebhookResponse(401, <<>>)
    ELSE IF x_github_event = "ping" THEN WebhookResponse(200, <<>>)
    ELSE IF /\ x_github_event = "pull_request"
            /\ payload.action \in { Some("opened"), Some("synchronize"),
                                    Some("reopened") }
            /\ LET repo_full_name == IF payload.full_name = None THEN <<>>
                                     ELSE payload.full_name[1]
               IN  /\ \E i \in 1..Len(repo_full_name) : repo_full_name[i] = "/"
                   /\ payload.number # None
    THEN WebhookResponse(202,
            << [owner |-> split_once(payload.full_name[1])[1],
                repo |-> split_once(payload.full_name[1])[2],
                pr_number |-> payload.number[1],
                post_review |-> TRUE, skip_if_reviewed |-> TRUE] >>)
    ELSE WebhookResponse(200, <<>>)

\* The repository names of the deliveries: owner/repo, a name with two
\* slashes, a name without one and the empty name.
FullNames ==
    { <<"o", "/", "r">>, <<"o", "/", "r", "/", "x">>, <<"o", "r">>, <<>> }

\* One delivery on its own: a secret is configured or not; the signature
\* header is absent, or the digest under the configured key or another key,
\* of this body or of another one; the payload has its keys or lacks them.
InitWebhook ==
    /\ \E secret \in { None, Some("s1") },
          signature \in { None } \cup
                        { Some(hmac_sha256(key, over)) :
                            key \in {"s1", "s2"}, over \in {"body", "other"} },
          event \in {"ping", "pull_request", "push"},
          action \in { None, Some("opened"), Some("synchronize"),
                       Some("reopened"), Some("closed") },
          number \in { None, Some(7) },
          full_name \in { None } \cup { Some(n) : n \in FullNames } :
          webhook = [pc |-> "received", github_webhook_secret |-> secret,
                     x_hub_signature_256 |-> signature, x_github_event |-> event,
                     body |-> "body",
                     payload |-> [action |-> action, number |-> number,
                                  full_name |-> full_name],
                     response |-> None]
    /\ llm = IdleLLM
    /\ parsing = IdleParsing
    /\ aggregation = IdleAggregation
    /\ router = IdleRouter
    /\ max_files_per_review = 1
    /\ worker_concurrency = 1
    /\ pr_diff = [s \in SHAs |-> <<>>]
    /\ reviews = {}
    /\ review_comments = {}
    /\ task = [t \in Tasks |-> [NewTask(WebhookParams) EXCEPT !.state = "absent"]]
    /\ run = [t \in Tasks |-> IdleRun]
    /\ session = [t \in Tasks |-> EmptySession]
    /\ create_review_calls = [s \in SHAs |-> 0]

\* The receiver handles the delivery and answers.
GithubWebhook ==
    /\ webhook.pc = "received"
    /\ webhook' = [webhook EXCEPT
                     !.pc = "answered",
                     !.response = Some(github_webhook(webhook.github_webhook_secret,
                                                      webhook.x_github_event,
                                                      webhook.x_hub_signature_256,
                                                      webhook.body,
                                                      webhook.payload))]
    /\ UNCHANGED <<llm, parsing, aggregation, router, max_files_per_review,
                   worker_concurrency, pr_diff, reviews, review_comments, task,
                   run, session, create_review_calls>>

SpecWebhook == InitWebhook /\ [][GithubWebhook]_vars

\* ------------------------------------------------------------ observations
\* The operations of a call log, and the arguments of one operation, in order.
RECURSIVE ArgsOf(_, _)
ArgsOf(calls, op) ==
    IF calls = <<>> THEN <<>>
    ELSE (IF Head(calls).op = op THEN <<Head(calls).arg>> ELSE <<>>)
         \o ArgsOf(Tail(calls), op)

CountOp(calls, op) == Len(ArgsOf(calls, op))

Called(t, op) == CountOp(run[t].calls, op) > 0

LastOp(t) == IF run[t].calls = <<>> THEN "" ELSE run[t].calls[Len(run[t].calls)].op

LastOp_of(r) == IF r.calls = <<>> THEN "" ELSE r.calls[Len(r.calls)].op

Min(a, b) == IF a <= b THEN a ELSE b

\* The in-scope files of the pull request at a head SHA, stated from the
\* paths themselves: those whose last three characters are ".py".
InScope(sha) ==
    SelectSeq(pr_diff[sha],
              LAMBDA p : Len(p) >= 3 /\ p[Len(p) - 2] = "." /\ p[Len(p) - 1] = "p"
                         /\ p[Len(p)] = "y")

\* The files a run is to review: the first max_files_per_review in-scope ones.
ToReview(sha) ==
    SubSeq(InScope(sha), 1, Min(Len(InScope(sha)), max_files_per_review))

AllWithSessionSkipPost ==
    \A t \in Tasks : /\ task[t].params.session
                     /\ task[t].params.skip_if_reviewed
                     /\ task[t].params.post_review

\* C1: at most one effective review per commit SHA -- when every execute run
\* has a session, skip_if_reviewed=true and post_review=true, create_review
\* is invoked at most once in total for a head SHA.
C1_AtMostOneReviewPerSha ==
    AllWithSessionSkipPost => \A sha \in SHAs : create_review_calls[sha] <= 1

\* C2: no partial submission -- create_review is invoked only after
\* review_code has returned for every file to review, and a run in which
\* review_code raised carries that exception out, has reviewed nothing past
\* the failing file and never invokes create_review.
C2_NoPartialSubmission ==
    \A t \in Tasks :
        LET r == run[t]
        IN  /\ Called(t, "create_review") =>
                 /\ ArgsOf(r.calls, "review_code") = ToReview(r.head_sha)
                 /\ Len(r.all_responses) = Len(ToReview(r.head_sha))
                 /\ LastOp(t) # "review_code"
            /\ r.exc.kind = "LLMProviderUnavailableError" =>
                 /\ r.pc \in {"mark_failed", "raised"}
                 /\ ~Called(t, "create_review")
                 /\ r.result = None
                 /\ CountOp(r.calls, "review_code") = Len(r.all_responses) + 1
                 /\ LastOp(t) \in {"review_code", "mark_failed"}

\* C2 witness: review_code raised on the second file after the first one
\* was reviewed; the run is leaving execute with nothing submitted.
C2_Witness ==
    \E t \in Tasks :
        /\ run[t].exc.kind = "LLMProviderUnavailableError"
        /\ run[t].pc = "raised"
        /\ Len(run[t].all_responses) = 1
        /\ Len(run[t].file_diffs) = 2

\* The rows get_by_sha matches for task t, stated from the table itself.
Found(t) ==
    { row \in reviews \cup session[t].reviews : row.head_sha = run[t].head_sha }

ForbiddenOnReplay ==
    {"get_pull_request_diff", "get_file_content", "review_code",
     "create_review", "create", "mark_completed", "create_many"}

\* C3: idempotent replay makes no new work -- a run with a session and
\* skip_if_reviewed=true that looks up a head SHA for which a completed
\* record exists returns a PipelineResult without fetching the diff or file
\* content, without calling the review backend or create_review, and without
\* creating a record.
C3_ReplayMakesNoNewWork ==
    [][\A t \in Tasks :
          ( /\ run[t].pc = "get_by_sha"
            /\ run'[t] # run[t]
            /\ \E row \in Found(t) : row.status = "completed" )
          => /\ run'[t].pc = "returned"
             /\ run'[t].result # None
             /\ session'[t] = session[t]
             /\ \A k \in 1..Len(run'[t].calls) :
                    run'[t].calls[k].op \notin ForbiddenOnReplay]_vars

\* C4: idempotent replay returns the same result -- the PipelineResult of a
\* replaying run equals, field by field, the PipelineResult of the run that
\* produced the record it replays.
C4_ReplayReturnsSameResult ==
    \A t \in Tasks : \A u \in Tasks \ {t} :
        ( /\ run[t].replayed
          /\ run[t].pc = "returned"
          /\ task[u].state = "success"
          /\ task[u].result # None
          /\ task[u].result[1].review_id = run[t].result[1].review_id )
        => run[t].result = task[u].result

\* "The run returned the prior result without reviewing."
ShortCircuited(r) ==
    /\ r.pc = "returned"
    /\ r.result # None
    /\ LastOp_of(r) = "get_by_sha"

\* C5: the idempotency short-circuit fires only for a completed prior run --
\* a run returns the prior result without reviewing if and only if it has a
\* session, skip_if_reviewed is true and the record found for its head SHA is
\* completed; otherwise (record found but not completed, no record, or
\* skip_if_reviewed false) a run with a session creates a new in_progress
\* record and goes on to the full review.
C5_ShortCircuitOnlyWhenCompleted ==
    [][\A t \in Tasks :
          LET r == run[t]
              r2 == run'[t]
              p == task[t].params
          IN  /\ ( r.pc = "get_pull_request" /\ r2.pc \notin {"get_pull_request", "raised"} )
                 => /\ (r2.pc = "get_by_sha") <=> (p.session /\ p.skip_if_reviewed)
                    /\ (r2.pc = "create") <=> (p.session /\ ~p.skip_if_reviewed)
                    /\ (r2.pc = "get_pull_request_diff") <=> ~p.session
              /\ ( r.pc = "get_by_sha" /\ r2 # r )
                 => /\ ShortCircuited(r2) <=>
                          ( /\ Cardinality(Found(t)) = 1
                            /\ \A row \in Found(t) : row.status = "completed" )
                    /\ ShortCircuited(r2) =>
                          \E row \in Found(t) : r2.result[1].review_id = Some(row.id)
                    /\ ( Cardinality(Found(t)) <= 1 /\ ~ShortCircuited(r2) )
                          => r2.pc = "create"
              /\ ( r.pc = "create" /\ r2 # r )
                 => /\ r2.pc = "get_pull_request_diff"
                    /\ r2.review_db_id # None
                    /\ \E row \in session'[t].reviews \ session[t].reviews :
                          /\ row.id = r2.review_db_id[1]
                          /\ row.status = "in_progress"
                          /\ row.head_sha = r.head_sha
                    /\ \A row \in reviews \cup session[t].reviews :
                          row.id # r2.review_db_id[1]
              /\ ShortCircuited(r2) => r.pc \in {"get_by_sha", "returned"}]_vars

\* C5 witness: a run with skip_if_reviewed=true found a failed record for
\* its head SHA and is reviewing under its own new in_progress record.
C5_Witness ==
    \E t \in Tasks :
        /\ task[t].params.session
        /\ task[t].params.skip_if_reviewed
        /\ run[t].pc = "review_code"
        /\ \E row \in reviews :
              row.head_sha = run[t].head_sha /\ row.status = "failed"
        /\ \E row \in session[t].reviews :
              row.id = run[t].review_db_id[1] /\ row.status = "in_progress"

\* The run fetched and parsed the diff itself (it is not a replay) and the
\* fetch did not raise.
ParsedDiff(t) ==
    /\ Called(t, "get_pull_request_diff")
    /\ ~(LastOp(t) = "get_pull_request_diff" /\ run[t].exc # NoExc)
    /\ ~(LastOp(t) = "mark_failed" /\ CountOp(run[t].calls, "get_file_content") = 0
         /\ ~Called(t, "mark_completed"))

\* C6: no in-scope file -- when the parsed diff has no .py file the run
\* returns files_reviewed=0, total_comments=0, verdict approve, zero tokens
\* and cost, review_posted=false, and never calls get_file_content, the
\* review backend or create_review, whatever post_review is.
C6_NoInScopeFiles ==
    \A t \in Tasks :
        ( ParsedDiff(t) /\ InScope(run[t].head_sha) = <<>> )
        => /\ ~Called(t, "get_file_content")
           /\ ~Called(t, "review_code")
           /\ ~Called(t, "create_review")
           /\ run[t].exc = NoExc
           /\ run[t].pc \in {"mark_completed_no_files", "returned"}
           /\ run[t].result # None
           /\ LET res == run[t].result[1]
              IN  /\ res.files_reviewed = 0
                  /\ res.total_comments = 0
                  /\ res.verdict = "approve"
                  /\ res.total_tokens = 0
                  /\ res.total_cost_usd = 0
                  /\ res.review_posted = FALSE
                  /\ res.github_review_id = None

\* C6 witness: a run with post_review=true returns from a diff that has
\* files, none of them in scope.
C6_Witness ==
    \E t \in Tasks :
        /\ task[t].params.post_review
        /\ run[t].pc = "returned"
        /\ ParsedDiff(t)
        /\ pr_diff[run[t].head_sha] # <<>>
        /\ InScope(run[t].head_sha) = <<>>

IsPrefix(a, b) == Len(a) <= Len(b) /\ SubSeq(b, 1, Len(a)) = a

\* C7: the file limit -- with n in-scope files and limit m the backend is
\* called for the first min(n, m) in-scope files in diff order and for no
\* other, the excess raises nothing, and the run reports
\* files_reviewed = min(n, m).
C7_FileLimit ==
    \A t \in Tasks :
        LET r == run[t]
            n == Len(InScope(r.head_sha))
            reviewed == ArgsOf(r.calls, "review_code")
        IN  ( ParsedDiff(t) /\ n > 0 )
            => /\ IsPrefix(reviewed, ToReview(r.head_sha))
               /\ r.file_diffs = ToReview(r.head_sha)
               /\ LastOp(t) = "get_pull_request_diff"
                     => r.pc = "get_file_content" /\ r.exc = NoExc
               /\ r.aggregated # None =>
                     /\ reviewed = ToReview(r.head_sha)
                     /\ Len(reviewed) = Min(n, max_files_per_review)
               /\ r.pc = "returned" =>
                     /\ r.result # None
                     /\ r.result[1].files_reviewed = Min(n, max_files_per_review)

\* C7 witness: three in-scope files, limit two; the run returns having
\* reviewed two.
C7_Witness ==
    \E t \in Tasks :
        /\ run[t].pc = "returned"
        /\ ParsedDiff(t)
        /\ Len(InScope(run[t].head_sha)) = 3
        /\ max_files_per_review = 2
        /\ run[t].result[1].files_reviewed = 2
        /\ CountOp(run[t].calls, "review_code") = 2

\* C8: a content-fetch failure never aborts the run -- every get_file_content
\* call, failed or not, is followed by the review_code call for that same
\* file (with file_content None when the fetch failed); apart from
\* file_content the run is in the same state after a failed fetch as after a
\* successful one, with no exception pending.
C8_ContentFetchNeverAborts ==
    [][\A t \in Tasks :
          LET r == run[t]
              r2 == run'[t]
          IN  /\ ( r.pc = "get_file_content" /\ r2 # r )
                 => /\ r2.file_content \in {None, Some("content")}
                    /\ [r2 EXCEPT !.file_content = None] =
                          [r EXCEPT !.pc = "review_code",
                                    !.file_content = None,
                                    !.calls = Append(@, Call("get_file_content",
                                                             r.file_diffs[r.i]))]
              /\ ( r.pc = "review_code" /\ r2 # r )
                 => /\ r.calls[Len(r.calls)].op = "get_file_content"
                    /\ r2.calls[Len(r.calls) + 1] =
                          Call("review_code", r.calls[Len(r.calls)].arg)]_vars

\* C8 witness: the fetch of the last of two files failed and the run has
\* aggregated both reviews.
C8_Witness ==
    \E t \in Tasks :
        /\ run[t].file_content = None
        /\ run[t].aggregated # None
        /\ Len(run[t].all_responses) = 2
        /\ run[t].exc = NoExc

\* The last host or backend call of a run (mark_failed is the handler's).
RECURSIVE LastExternalOp(_)
LastExternalOp(calls) ==
    IF calls = <<>> THEN ""
    ELSE IF calls[Len(calls)].op = "mark_failed"
         THEN LastExternalOp(SubSeq(calls, 1, Len(calls) - 1))
         ELSE calls[Len(calls)].op

\* C9: submission failure -- when create_review raises, the run leaves
\* execute with a ReviewError whose cause is the host's error and with no
\* PipelineResult; a failing fetch or review-backend call never yields a
\* ReviewError.
C9_SubmissionFailureIsReviewError ==
    \A t \in Tasks :
        LET r == run[t]
        IN  /\ ( r.exc # NoExc /\ LastExternalOp(r.calls) = "create_review" )
               => /\ r.exc.kind = "ReviewError"
                  /\ r.exc.cause \in HostErrors
                  /\ r.result = None
                  /\ r.pc \in {"mark_failed", "raised"}
                  /\ task[t].params.post_review
                  /\ Len(r.all_responses) = Len(r.file_diffs)
            /\ ( r.exc # NoExc /\ LastExternalOp(r.calls) \in
                    {"get_pull_request", "get_pull_request_diff", "review_code"} )
               => r.exc.kind # "ReviewError"
            /\ r.exc.kind = "ReviewError" => LastExternalOp(r.calls) = "create_review"

\* C9 witness: create_review raised GitHubNotFoundError and execute raises
\* the ReviewError that wraps it.
C9_Witness ==
    \E t \in Tasks :
        /\ run[t].pc = "raised"
        /\ run[t].exc = Exc("ReviewError", "GitHubNotFoundError")
        /\ LastExternalOp(run[t].calls) = "create_review"

\* C10: submission follows post_review -- a run that reviewed at least one
\* file and returns has invoked create_review once if post_review and never
\* otherwise; review_posted equals post_review and github_review_id is what
\* the host answered when posted, None when not.
C10_SubmissionFollowsFlag ==
    \A t \in Tasks :
        LET r == run[t]
            post == task[t].params.post_review
            posts == ArgsOf(r.calls, "create_review")
        IN  /\ Len(posts) <= 1
            /\ ~post => Len(posts) = 0
            /\ ( r.pc = "returned" /\ Called(t, "review_code") )
               => /\ Len(posts) = (IF post THEN 1 ELSE 0)
                  /\ r.result # None
                  /\ r.result[1].review_posted = post
                  /\ r.result[1].github_review_id =
                        (IF post THEN posts[1] ELSE None)

\* C10 witness: a posting run returns with the id the host assigned.
C10_Witness ==
    \E t \in Tasks :
        /\ run[t].pc = "returned"
        /\ Called(t, "review_code")
        /\ task[t].params.post_review
        /\ run[t].result[1].github_review_id = Some(7)
        /\ run[t].result[1].review_posted

\* The per-file calls of a call log, in the order they were made.
FileCalls(calls) ==
    SelectSeq(calls, LAMBDA c : c.op \in {"get_file_content", "review_code"})

\* The position of a path in a list of distinct paths.
PosIn(files, path) == CHOOSE k \in 1..Len(files) : files[k] = path

\* C11: per-file processing is strictly sequential and order-preserving --
\* the per-file calls of a run are get_file_content, review_code for the
\* first in-scope file, then for the second, and so on in diff order; a
\* file's get_file_content is called when exactly the files before it have
\* been answered by the backend; and the aggregated comments are in that
\* same file order.
C11_SequentialInDiffOrder ==
    \A t \in Tasks :
        LET r == run[t]
            fc == FileCalls(r.calls)
        IN  /\ \A k \in 1..Len(fc) :
                  /\ (k + 1) \div 2 <= Len(ToReview(r.head_sha))
                  /\ fc[k] = Call(IF k % 2 = 1 THEN "get_file_content"
                                  ELSE "review_code",
                                  ToReview(r.head_sha)[(k + 1) \div 2])
            /\ r.pc = "get_file_content" => Len(fc) = 2 * Len(r.all_responses)
            /\ r.pc = "review_code" => Len(fc) = 2 * Len(r.all_responses) + 1
            /\ r.aggregated # None =>
                  LET comments == r.aggregated[1].comments
                  IN  \A j \in 1..Len(comments) : \A k \in j..Len(comments) :
                          PosIn(ToReview(r.head_sha), comments[j].path)
                             <= PosIn(ToReview(r.head_sha), comments[k].path)

\* C11 witness: two files were reviewed, both drew comments, and the run has
\* aggregated them.
C11_Witness ==
    \E t \in Tasks :
        /\ run[t].aggregated # None
        /\ Len(run[t].file_diffs) = 2
        /\ Len(run[t].aggregated[1].comments) = 4
        /\ run[t].aggregated[1].comments[1].path = APy
        /\ run[t].aggregated[1].comments[4].path = BPy

\* The calls execute() makes to the host and to the review backend.
ExternalOps ==
    {"get_pull_request", "get_pull_request_diff", "get_file_content",
     "review_code", "create_review"}

ExternalCalls(calls) == SelectSeq(calls, LAMBDA c : c.op \in ExternalOps)

\* The phase a call belongs to: Fetching 1 (Parsing 2 makes no call),
\* PerFileReview 3 (Aggregating 4 makes no call), Submitting 5.
PhaseOfOp(op) ==
    IF op \in {"get_pull_request", "get_pull_request_diff"} THEN 1
    ELSE IF op \in {"get_file_content", "review_code"} THEN 3
    ELSE 5

\* The phase a run is suspended in; Done is 6, Failed is 7.
PhaseOfPc(pc) ==
    IF pc \in {"get_pull_request", "get_by_sha", "create", "get_pull_request_diff"}
    THEN 1
    ELSE IF pc \in {"get_file_content", "review_code"} THEN 3
    ELSE IF pc = "create_review" THEN 5
    ELSE IF pc \in {"mark_completed_no_files", "mark_completed", "create_many",
                    "returned"} THEN 6
    ELSE 7

\* C12: one run moves through Fetching, Parsing, PerFileReview, Aggregating,
\* Submitting, Done in that order and never back; get_pull_request,
\* get_pull_request_diff and create_review are invoked at most once,
\* get_file_content and review_code at most once per file; and once a step
\* has raised the run makes no further host or backend call and stays failed.
C12_PhasesInOrderNoRetry ==
    [][\A t \in Tasks :
          LET r == run[t]
              r2 == run'[t]
              ext == ExternalCalls(r2.calls)
          IN  ( r.pc # "idle" /\ r2.pc # "idle" )
              => /\ PhaseOfPc(r2.pc) >= PhaseOfPc(r.pc)
                 /\ \A j \in 1..Len(ext) : \A k \in (j + 1)..Len(ext) :
                        /\ PhaseOfOp(ext[j].op) <= PhaseOfOp(ext[k].op)
                        /\ ext[j].op = ext[k].op =>
                               /\ PhaseOfOp(ext[j].op) = 3
                               /\ ext[j].arg # ext[k].arg
                 /\ r.exc # NoExc =>
                        /\ r2.exc = r.exc
                        /\ ExternalCalls(r2.calls) = ExternalCalls(r.calls)
                        /\ r2.pc \in {"mark_failed", "raised"}
                        /\ r2.result = None]_vars

\* C12 witness: one run went through every phase and posted its review of
\* two files; a later run failed in the backend on its second file, marked
\* its record failed and is leaving execute.
C12_Witness ==
    \E t \in Tasks : \E u \in Tasks \ {t} :
        /\ task[u].state = "success"
        /\ task[u].result # None
        /\ task[u].result[1].files_reviewed = 2
        /\ task[u].result[1].review_posted
        /\ run[t].pc = "raised"
        /\ LastOp(t) = "mark_failed"
        /\ Len(ExternalCalls(run[t].calls)) = 6

\* The last host or backend call of a run, with what the log kept of it.
RECURSIVE LastExternalCall(_)
LastExternalCall(calls) ==
    IF calls[Len(calls)].op = "mark_failed"
    THEN LastExternalCall(SubSeq(calls, 1, Len(calls) - 1))
    ELSE calls[Len(calls)]

\* C13: fetch errors propagate as-is -- when get_pull_request or
\* get_pull_request_diff raised, the exception of the run, and so the one
\* that reaches the caller of execute, is the exception the host raised: same
\* kind, nothing wrapped, no PipelineResult, with a session or without.
C13_FetchErrorsAsIs ==
    \A t \in Tasks :
        LET r == run[t]
        IN  ( /\ r.calls # <<>>
              /\ LastExternalOp(r.calls) \in {"get_pull_request", "get_pull_request_diff"}
              /\ LastExternalCall(r.calls).arg # None )
            => /\ r.pc \in {"mark_failed", "raised"}
               /\ r.exc.kind \in HostErrors
               /\ Some(r.exc.kind) = LastExternalCall(r.calls).arg
               /\ r.exc.cause = ""
               /\ r.result = None
               /\ r.pc = "mark_failed" => HasSession(t)

\* C13 witness: with a session attached the diff fetch raised
\* GitHubNotFoundError; the record is marked failed and that exception is
\* reaching the caller.
C13_Witness ==
    \E t \in Tasks :
        /\ HasSession(t)
        /\ run[t].pc = "raised"
        /\ LastOp(t) = "mark_failed"
        /\ LastExternalOp(run[t].calls) = "get_pull_request_diff"
        /\ run[t].exc = Exc("GitHubNotFoundError", "")

\* The review record a run created, as its session holds it.
OwnRecord(t) == GetById(t, run[t].review_db_id[1])

\* C14: with persistence attached a run that created a review record leaves
\* execute with that record in a final status -- when a step after the
\* creation raised, mark_failed has been invoked, once, with the record's id
\* and the error text before the exception leaves execute and the record is
\* failed; when the run returns, the record is completed; the record is
\* in_progress only while the run is under way.
C14_RecordEndsFinal ==
    \A t \in Tasks :
        LET r == run[t]
        IN  ( HasSession(t) /\ r.review_db_id # None )
            => /\ r.pc = "raised" =>
                     /\ ArgsOf(r.calls, "mark_failed") =
                           << [id |-> r.review_db_id[1],
                               error_message |-> r.exc.kind] >>
                     /\ LastOp(t) = "mark_failed"
                     /\ OwnRecord(t).status = "failed"
                     /\ OwnRecord(t).error_message = Some(r.exc.kind)
               /\ r.pc = "returned" =>
                     /\ OwnRecord(t).status = "completed"
                     /\ ~Called(t, "mark_failed")
               /\ r.exc # NoExc => r.pc \in {"mark_failed", "raised"}
               /\ OwnRecord(t).status = "in_progress" =>
                     r.pc \notin {"returned", "raised"}

\* C14 witness: saving the comments raised after the record was marked
\* completed; mark_failed ran and the exception is leaving execute.
C14_Witness ==
    \E t \in Tasks :
        /\ run[t].pc = "raised"
        /\ run[t].exc.kind = "SQLAlchemyError"
        /\ run[t].review_db_id # None
        /\ OwnRecord(t).status = "failed"
        /\ Called(t, "mark_completed")

\* The persistence operations of execute().
PersistenceOps ==
    {"get_by_sha", "create", "mark_completed", "mark_failed", "create_many"}

\* What a run that reviewed its files returns, but for review_id, stated
\* from what the backend and the host answered; the session plays no part.
ExpectedResult(t) ==
    LET r == run[t]
        agg == _aggregate_responses(r.all_responses)
        posts == ArgsOf(r.calls, "create_review")
    IN  PipelineResult(None, Len(ToReview(r.head_sha)), Len(agg.comments),
                       agg.verdict, agg.summary, agg.model, agg.tokens_used,
                       agg.cost_usd, task[t].params.post_review,
                       IF posts = <<>> THEN None ELSE posts[1])

\* C15: persistence is optional -- a run without a session performs no
\* persistence operation, never short-circuits on a prior review and returns
\* review_id None; review_id aside, a run returns the same PipelineResult for
\* the same backend and host answers with a session as without one.
C15_PersistenceOptional ==
    \A t \in Tasks :
        LET r == run[t]
        IN  /\ ~HasSession(t) =>
                  /\ \A k \in 1..Len(r.calls) : r.calls[k].op \notin PersistenceOps
                  /\ session[t] = EmptySession
                  /\ ~r.replayed
                  /\ r.review_db_id = None
                  /\ r.pc \notin {"get_by_sha", "create", "mark_completed",
                                  "mark_completed_no_files", "create_many",
                                  "mark_failed"}
                  /\ r.result # None => r.result[1].review_id = None
            /\ ( r.pc = "returned" /\ ~r.replayed ) =>
                  /\ (r.result[1].review_id = None) <=> ~HasSession(t)
                  /\ Called(t, "review_code") =>
                        [r.result[1] EXCEPT !.review_id = None] = ExpectedResult(t)
                  /\ ~Called(t, "review_code") =>
                        [r.result[1] EXCEPT !.review_id = None] = NoFilesResult(None)

\* C15 witness: while a completed record for the head SHA is in the table, a
\* run without a session reviewed two files, posted the review and returns.
C15_Witness ==
    \E t \in Tasks :
        /\ ~HasSession(t)
        /\ run[t].pc = "returned"
        /\ run[t].result[1].files_reviewed = 2
        /\ run[t].result[1].review_posted
        /\ run[t].result[1].review_id = None
        /\ \E row \in reviews : row.head_sha = run[t].head_sha /\ row.status = "completed"

\* The provider a router call is to try first.
Primary == IF router.provider # None THEN router.provider[1]
           ELSE router.default_provider

\* The providers a router call may attempt, in the order it may attempt them.
AttemptOrder ==
    <<Primary>> \o
    (IF router.fallback_enabled
     THEN SelectSeq(fallback_order, LAMBDA n : n # Primary)
     ELSE <<>>)

\* Whether an attempt of this provider ends the call with its response.
Completes(name) == name \in KnownProviders /\ router.behaviour[name] = "completes"

\* The calls the router has made when it attempted the first n providers of
\* AttemptOrder and none before the n-th completed.
RECURSIVE CallsOfAttempts(_)
CallsOfAttempts(n) ==
    IF n = 0 THEN <<>>
    ELSE LET name == AttemptOrder[n]
         IN  CallsOfAttempts(n - 1) \o
             (IF name \notin KnownProviders THEN <<>>
              ELSE IF router.behaviour[name] = "unavailable"
              THEN <<Call("is_available", name)>>
              ELSE <<Call("is_available", name), Call("review_code", name)>>)

\* C16: the router attempts the explicitly passed, else the default provider
\* first and returns its response if it is available and completes; else,
\* with fallback enabled, it attempts the others in the order anthropic,
\* ollama, skipping the one just tried, and returns the response of the
\* first that is available and completes; it touches no provider after the
\* one that answered and none more than once.
C16_PrimaryThenFallbackOrder ==
    router.pc # "idle" =>
        /\ \E n \in 0..Len(AttemptOrder) :
              /\ router.calls = CallsOfAttempts(n)
              /\ \A m \in 1..(n - 1) : ~Completes(AttemptOrder[m])
              /\ router.pc = "returned" =>
                    /\ n >= 1
                    /\ Completes(AttemptOrder[n])
                    /\ router.result = Some(ProviderResponse(AttemptOrder[n]))
              /\ router.pc = "raised" =>
                    /\ n >= 1
                    /\ ~Completes(AttemptOrder[n])
                    /\ n = Len(AttemptOrder)
        /\ \A j \in 1..Len(router.calls) : \A k \in (j + 1)..Len(router.calls) :
              router.calls[j] # router.calls[k]
        /\ ( router.pc \in {"returned", "raised"}
             /\ \E m \in 1..Len(AttemptOrder) : Completes(AttemptOrder[m]) )
           => router.pc = "returned"
        /\ router.pc = "returned" <=> router.result # None

\* C16 witness: the default provider anthropic raised, fallback is enabled
\* and ollama answered.
C16_Witness ==
    /\ router.pc = "returned"
    /\ router.provider = None
    /\ router.default_provider = "anthropic"
    /\ router.behaviour["anthropic"] = "LLMError"
    /\ router.result = Some(ProviderResponse("ollama"))
    /\ Len(router.calls) = 4

\* C17: when every provider the router attempts is unavailable or raises,
\* the call fails with LLMProviderUnavailableError, with fallback enabled or
\* not and whatever the providers raised.
C17_AllFailIsUnavailable ==
    router.pc = "raised" => router.exc = "LLMProviderUnavailableError"

\* How severe a verdict is.
Severity(verdict) ==
    IF verdict = "request_changes" THEN 2
    ELSE IF verdict = "comment" THEN 1
    ELSE 0

\* C18: the aggregated verdict is a most-severe-wins reduction -- for every
\* non-empty sequence of per-file results the aggregated verdict is the
\* verdict of one of them and no per-file verdict is more severe, wherever
\* in the sequence and however often each verdict occurs.
C18_MostSevereVerdictWins ==
    ( aggregation.pc = "returned" /\ aggregation.responses # <<>> )
    => LET responses == aggregation.responses
           verdict == aggregation.result[1].verdict
       IN  /\ \E k \in 1..Len(responses) : responses[k].verdict = verdict
           /\ \A k \in 1..Len(responses) :
                 Severity(responses[k].verdict) <= Severity(verdict)

\* C18 witness: [approve, request_changes, approve] was aggregated to
\* request_changes.
C18_Witness ==
    /\ aggregation.pc = "returned"
    /\ Len(aggregation.responses) = 3
    /\ aggregation.responses[1].verdict = "approve"
    /\ aggregation.responses[2].verdict = "request_changes"
    /\ aggregation.responses[3].verdict = "approve"
    /\ aggregation.result[1].verdict = "request_changes"

\* The number of comments of the first n per-file results.
RECURSIVE CommentsBefore(_, _)
CommentsBefore(responses, n) ==
    IF n = 0 THEN 0
    ELSE CommentsBefore(responses, n - 1) + Len(responses[n].comments)

\* C19: the aggregated comments are the per-file comment lists one after the
\* other in file arrival order, each in its own order -- the j-th comment of
\* the k-th file stands at position (comments of the files before k) + j,
\* and the aggregated list is as long as the per-file lists together, so
\* nothing is re-sorted, dropped or de-duplicated.
C19_CommentsConcatenated ==
    aggregation.pc = "returned"
    => LET responses == aggregation.responses
           comments == aggregation.result[1].comments
       IN  /\ Len(comments) = CommentsBefore(responses, Len(responses))
           /\ \A k \in 1..Len(responses) :
                 \A j \in 1..Len(responses[k].comments) :
                     comments[CommentsBefore(responses, k - 1) + j]
                        = responses[k].comments[j]

\* C19 witness: three files, the first with comments out of line order, the
\* third with a comment equal to one of the first; all three comments are in
\* the aggregated list, in arrival order.
C19_Witness ==
    /\ aggregation.pc = "returned"
    /\ Len(aggregation.responses) = 3
    /\ aggregation.responses[1].comments = <<Comment(APy, 2), Comment(APy, 1)>>
    /\ aggregation.responses[2].comments = <<>>
    /\ aggregation.responses[3].comments = <<Comment(APy, 1)>>
    /\ aggregation.result[1].comments =
          <<Comment(APy, 2), Comment(APy, 1), Comment(APy, 1)>>

\* The sum of a field over the first n per-file results.
RECURSIVE SumTo(_, _, _)
SumTo(responses, field, n) ==
    IF n = 0 THEN 0
    ELSE SumTo(responses, field, n - 1) + responses[n][field]

\* C20: aggregated tokens_used and cost_usd are the sums of the per-file
\* values, and a run that reviewed its files returns total_tokens equal to
\* the sum of tokens_used over exactly the files it reviewed.
C20_TokensAndCostAreSums ==
    \A t \in Tasks :
        LET r == run[t]
            n == Len(r.all_responses)
        IN  /\ r.aggregated # None =>
                  /\ r.aggregated[1].tokens_used = SumTo(r.all_responses, "tokens_used", n)
                  /\ r.aggregated[1].cost_usd = SumTo(r.all_responses, "cost_usd", n)
                  /\ n = CountOp(r.calls, "review_code")
            /\ ( r.pc = "returned" /\ Called(t, "review_code") ) =>
                  /\ r.result[1].total_tokens = SumTo(r.all_responses, "tokens_used", n)
                  /\ r.result[1].total_cost_usd = SumTo(r.all_responses, "cost_usd", n)
                  /\ r.result[1].files_reviewed = n

\* C20 witness: a run reviewed two files that used 2 and 3 tokens and
\* returns total_tokens = 5.
C20_Witness ==
    \E t \in Tasks :
        /\ run[t].pc = "returned"
        /\ Len(run[t].all_responses) = 2
        /\ run[t].all_responses[1].tokens_used = 2
        /\ run[t].all_responses[2].tokens_used = 3
        /\ run[t].result[1].total_tokens = 5

\* The number of results with at least one comment among the first n.
RECURSIVE CommentedBefore(_, _)
CommentedBefore(responses, n) ==
    IF n = 0 THEN 0
    ELSE CommentedBefore(responses, n - 1)
         + (IF Len(responses[n].comments) >= 1 THEN 1 ELSE 0)

\* C21: one per-file result: its summary is the aggregated summary, with or
\* without comments.  Two or more: after the heading the summary has one
\* entry per result that has a comment, in file order, naming that result's
\* file and summary, and nothing for a result without comments; when no
\* result has a comment the summary is "All files look good!".
C21_SummaryRules ==
    ( aggregation.pc = "returned" /\ Len(aggregation.responses) >= 1 )
    => LET responses == aggregation.responses
           n == Len(responses)
           summary == aggregation.result[1].summary
       IN  /\ n = 1 => summary = responses[1].summary
           /\ ( n >= 2 /\ CommentedBefore(responses, n) = 0 )
                 => summary = <<"All files look good!">>
           /\ ( n >= 2 /\ CommentedBefore(responses, n) >= 1 )
                 => /\ Len(summary) = 1 + CommentedBefore(responses, n)
                    /\ summary[1] = "### File Reviews"
                    /\ \A k \in 1..n :
                          Len(responses[k].comments) >= 1
                          => summary[1 + CommentedBefore(responses, k)]
                                = <<"**", responses[k].comments[1].path, "**: ",
                                    responses[k].summary>>

\* C21 witness: three results, the middle one without comments; the summary
\* is the heading, then the first file's entry, then the third's.
C21_Witness ==
    /\ aggregation.pc = "returned"
    /\ Len(aggregation.responses) = 3
    /\ aggregation.responses[1].comments = <<Comment(BPy, 1), Comment(BPy, 1)>>
    /\ aggregation.responses[1].summary = <<"nit">>
    /\ aggregation.responses[2].comments = <<>>
    /\ aggregation.responses[3].comments = <<Comment(APy, 1)>>
    /\ aggregation.responses[3].summary = <<"ok">>
    /\ aggregation.result[1].summary =
          << "### File Reviews", <<"**", BPy, "**: ", <<"nit">> >>,
             <<"**", APy, "**: ", <<"ok">> >> >>

\* C22: aggregating no per-file result gives the summary "No files
\* reviewed.", the verdict "comment", no comments, zero tokens and zero cost.
C22_EmptyAggregation ==
    ( aggregation.pc = "returned" /\ Len(aggregation.responses) = 0 )
    => LET result == aggregation.result[1]
       IN  /\ result.summary = <<"No files reviewed.">>
           /\ result.verdict = "comment"
           /\ result.comments = <<>>
           /\ result.tokens_used = 0
           /\ result.cost_usd = 0

\* C22 witness: the call on the empty sequence has returned.
C22_Witness ==
    /\ aggregation.pc = "returned"
    /\ aggregation.responses = <<>>
    /\ aggregation.result # None
    /\ aggregation.result[1].verdict = "comment"

\* ----- the text as written, read without the parser's loop
\* The line is a `diff --git a/<old> b/<new>` header.
IsHeaderLine(line) == FILE_HEADER_PATTERN(line) # None

\* The line is a hunk header.
IsHunkHeaderLine(line) == HUNK_HEADER_PATTERN(line) # None

\* The text is one section: a header first and no other header.
SingleFile(lines) ==
    /\ IsHeaderLine(lines[1])
    /\ \A i \in 2..Len(lines) : ~IsHeaderLine(lines[i])

\* The positions of the lines that stand after a hunk header of the text.
InsideHunks(lines) ==
    { i \in 1..Len(lines) :
        /\ ~IsHunkHeaderLine(lines[i])
        /\ \E h \in 1..(i - 1) : IsHunkHeaderLine(lines[h]) }

\* The line begins with character c, and not with three of them.
RawMarked(line, c) ==
    /\ Len(line) >= 1
    /\ line[1] = c
    /\ ~(Len(line) >= 3 /\ line[2] = c /\ line[3] = c)

\* The files of the returned list.
ParsedFiles == parsing.result[1].files

\* C23: parsing a text of one section, additions of its FileDiff is the
\* number of lines inside hunks that begin with "+" and not "+++", and
\* deletions the number that begin with "-" and not "---".
C23_CountsMatchRawLines ==
    ( parsing.pc = "returned" /\ SingleFile(parsing.lines) )
    => /\ Len(ParsedFiles) = 1
       /\ parsing.read[1].additions =
             Cardinality({ i \in InsideHunks(parsing.lines) :
                             RawMarked(parsing.lines[i], "+") })
       /\ parsing.read[1].deletions =
             Cardinality({ i \in InsideHunks(parsing.lines) :
                             RawMarked(parsing.lines[i], "-") })

\* C23 witness: a hunk with a context line, "+++x", "+x", "---x", "-x", the
\* no-newline marker and "+x": two additions and one deletion are counted.
C23_Witness ==
    /\ parsing.pc = "returned"
    /\ parsing.lines = <<HeaderSame, OldA, NewB, Hunk1, Ctx, Plus3, Add,
                         Minus3, Del, NoNewline, Add>>
    /\ parsing.read[1].additions = 2
    /\ parsing.read[1].deletions = 1

\* How many of the first n lines of a hunk have one of the given types.
RECURSIVE TypedBefore(_, _, _)
TypedBefore(lines, n, types) ==
    IF n = 0 THEN 0
    ELSE TypedBefore(lines, n - 1, types)
         + (IF lines[n].type \in types THEN 1 ELSE 0)

\* The number of DiffLines over all the hunks of a list.
RECURSIVE TotalLines(_)
TotalLines(hunks) ==
    IF hunks = <<>> THEN 0 ELSE Len(Head(hunks).lines) + TotalLines(Tail(hunks))

\* C24: in every hunk of every file returned, a line's old number is the
\* hunk's old_start plus the context and deletion lines before it, and its
\* new number is new_start plus the context and addition lines before it; the
\* starts are the numbers of the hunk's header line; additions have strictly
\* increasing new numbers; and in a text of one section the lines recorded
\* are exactly the "+", "-" and " " lines inside hunks, a backslash line
\* being neither recorded nor counted.
C24_LineNumbering ==
    parsing.pc = "returned"
    => /\ \A f \in 1..Len(ParsedFiles) : \A h \in 1..Len(ParsedFiles[f].hunks) :
             LET hunk == ParsedFiles[f].hunks[h]
                 head == HUNK_HEADER_PATTERN(hunk.header)[1]
             IN  /\ hunk.old_start = int(head.old_start)
                 /\ hunk.new_start = int(head.new_start)
                 /\ \A j \in 1..Len(hunk.lines) :
                       LET l == hunk.lines[j]
                           old == hunk.old_start
                                  + TypedBefore(hunk.lines, j - 1, {"context", "deletion"})
                           new == hunk.new_start
                                  + TypedBefore(hunk.lines, j - 1, {"context", "addition"})
                       IN  /\ l.type \in {"context", "deletion"} => l.old_line_no = <<old>>
                           /\ l.type \in {"context", "addition"} => l.new_line_no = <<new>>
                 /\ \A j, k \in 1..Len(hunk.lines) :
                       ( j < k /\ hunk.lines[j].type = "addition"
                               /\ hunk.lines[k].type = "addition" )
                       => hunk.lines[j].new_line_no[1] < hunk.lines[k].new_line_no[1]
       /\ SingleFile(parsing.lines)
          => TotalLines(ParsedFiles[1].hunks) =
                Cardinality({ i \in InsideHunks(parsing.lines) :
                                \/ RawMarked(parsing.lines[i], "+")
                                \/ RawMarked(parsing.lines[i], "-")
                                \/ StartsWith(parsing.lines[i], <<" ">>) })

\* C24 witness: the hunk "@@ -12 +10 @@ f" holding a deletion, the
\* no-newline marker and an addition: the deletion is at old line 12 and the
\* addition at new line 10.
C24_Witness ==
    /\ parsing.pc = "returned"
    /\ parsing.lines = <<HeaderSame, Hunk10, Del, NoNewline, Add>>
    /\ ParsedFiles[1].hunks[1].lines =
          << [type |-> "deletion", content |-> <<"x">>,
              old_line_no |-> <<12>>, new_line_no |-> <<>>],
             [type |-> "addition", content |-> <<"x">>,
              old_line_no |-> <<>>, new_line_no |-> <<10>>] >>

\* C25: every DiffLine returned: an addition has a new-file number and no
\* old-file number, a deletion an old-file number and no new-file number, a
\* context line both.
C25_LineNumberFields ==
    parsing.pc = "returned"
    => \A f \in 1..Len(ParsedFiles) : \A h \in 1..Len(ParsedFiles[f].hunks) :
          \A j \in 1..Len(ParsedFiles[f].hunks[h].lines) :
              LET l == ParsedFiles[f].hunks[h].lines[j]
              IN  /\ l.type \in {"addition", "deletion", "context"}
                  /\ l.type = "addition"
                        => Len(l.new_line_no) = 1 /\ Len(l.old_line_no) = 0
                  /\ l.type = "deletion"
                        => Len(l.old_line_no) = 1 /\ Len(l.new_line_no) = 0
                  /\ l.type = "context"
                        => Len(l.old_line_no) = 1 /\ Len(l.new_line_no) = 1

\* C25 witness: a hunk with a context line, a deletion and an addition, each
\* with the fields of its type.
C25_Witness ==
    /\ parsing.pc = "returned"
    /\ parsing.lines = <<HeaderSame, OldA, NewB, Hunk1, Ctx, Del, Add, Add, Blank, Ctx>>
    /\ LET lines == ParsedFiles[1].hunks[1].lines
       IN  /\ lines[1].type = "context"
           /\ lines[1].old_line_no = <<1>> /\ lines[1].new_line_no = <<1>>
           /\ lines[2].type = "deletion"
           /\ lines[2].old_line_no = <<2>> /\ lines[2].new_line_no = <<>>
           /\ lines[3].type = "addition"
           /\ lines[3].old_line_no = <<>> /\ lines[3].new_line_no = <<2>>

\* The positions <<hunk, line>> of the lines of a file.
LinePositions(file) ==
    UNION { { <<h, j>> : j \in 1..Len(file.hunks[h].lines) } :
              h \in 1..Len(file.hunks) }

\* The new-file numbers of the lines of a file that have the given type.
NewNumbersOf(file, type) ==
    { file.hunks[p[1]].lines[p[2]].new_line_no[1] :
        p \in { q \in LinePositions(file) :
                  file.hunks[q[1]].lines[q[2]].type = type } }

\* C26: for every file returned, get_changed_line_numbers is the new-file
\* numbers of the addition lines of all its hunks, each once, ascending; a
\* number that only a context line carries is not in it (a deletion carries
\* no new-file number).
C26_ChangedLineNumbers ==
    parsing.pc = "returned"
    => \A f \in 1..Len(ParsedFiles) :
          LET file == ParsedFiles[f]
              changed == parsing.read[f].changed_line_numbers
          IN  /\ { changed[k] : k \in 1..Len(changed) } = NewNumbersOf(file, "addition")
              /\ \A j, k \in 1..Len(changed) : j < k => changed[j] < changed[k]
              /\ \A n \in NewNumbersOf(file, "context") \ NewNumbersOf(file, "addition") :
                    \A k \in 1..Len(changed) : changed[k] # n

\* C26 witness: additions at new lines 10, 1 and 1 in three hunks, the last
\* followed by a context line at 2: the list returned is 1, 10.
C26_Witness ==
    /\ parsing.pc = "returned"
    /\ parsing.lines = <<HeaderSame, Hunk10, Add, Hunk1, Add, Hunk1, Add, Ctx>>
    /\ parsing.read[1].changed_line_numbers = <<1, 10>>

\* The positions of the header lines of a text, in order.
HeaderPositions(lines) ==
    SortedSet({ i \in 1..Len(lines) : IsHeaderLine(lines[i]) })

\* The positions of the lines of the k-th section that stand between its
\* header and its first hunk header: where a section has its file markers.
MarkerArea(lines, k) ==
    LET at == HeaderPositions(lines)
        last == IF k < Len(at) THEN at[k + 1] - 1 ELSE Len(lines)
    IN  { i \in (at[k] + 1)..last :
            \A h \in (at[k] + 1)..i : ~IsHunkHeaderLine(lines[h]) }

\* The paths of the old-file markers, and of the new-file markers, of the
\* k-th section.
OldMarkerPaths(lines, k) ==
    { OLD_FILE_PATTERN(lines[i])[1] :
        i \in { j \in MarkerArea(lines, k) : OLD_FILE_PATTERN(lines[j]) # None } }
NewMarkerPaths(lines, k) ==
    { NEW_FILE_PATTERN(lines[i])[1] :
        i \in { j \in MarkerArea(lines, k) : NEW_FILE_PATTERN(lines[j]) # None } }

\* The old and new paths of the header of the k-th section.
HeaderPaths(lines, k) == FILE_HEADER_PATTERN(lines[HeaderPositions(lines)[k]])[1]

\* C27: the status of each file returned: "added" when the old marker of
\* its section is /dev/null, "deleted" when the new marker is /dev/null,
\* "renamed" when the paths of its header differ and the new marker is not
\* /dev/null, and "modified" in every other case.
C27_StatusClassification ==
    parsing.pc = "returned"
    => \A k \in 1..Len(ParsedFiles) :
          LET status == ParsedFiles[k].status
              old_null == DevNull \in OldMarkerPaths(parsing.lines, k)
              new_null == DevNull \in NewMarkerPaths(parsing.lines, k)
              moved == HeaderPaths(parsing.lines, k)[1] # HeaderPaths(parsing.lines, k)[2]
          IN  /\ old_null => status = "added"
              /\ new_null => status = "deleted"
              /\ ( moved /\ ~new_null ) => status = "renamed"
              /\ ( ~old_null /\ ~new_null /\ ~moved ) => status = "modified"

\* C28: a file returned has an old_path only when its status is "renamed".
C28_OldPathOnlyWhenRenamed ==
    parsing.pc = "returned"
    => \A k \in 1..Len(ParsedFiles) :
          ParsedFiles[k].status \in {"added", "modified", "deleted"}
          => ParsedFiles[k].old_path = None

\* The positions of the k-th section's lines after its header.
SectionBody(lines, k) ==
    LET at == HeaderPositions(lines)
    IN  (at[k] + 1)..(IF k < Len(at) THEN at[k + 1] - 1 ELSE Len(lines))

\* C29: the list returned has one FileDiff for each line of the text that
\* is a `diff --git a/<old> b/<new>` header, in the order of those lines,
\* the last one included; its path is the <new> of its header and it has one
\* hunk for each hunk header of its section, so none when there is none.
C29_OneFilePerHeader ==
    parsing.pc = "returned"
    => /\ Len(ParsedFiles) = Len(HeaderPositions(parsing.lines))
       /\ \A k \in 1..Len(HeaderPositions(parsing.lines)) :
             /\ ParsedFiles[k].path = HeaderPaths(parsing.lines, k)[2]
             /\ Len(ParsedFiles[k].hunks) =
                   Cardinality({ i \in SectionBody(parsing.lines, k) :
                                   IsHunkHeaderLine(parsing.lines[i]) })

\* C29 witness: a rename section with no hunk followed by a section with
\* one hunk: two files, b.py with no hunks and then a.py with one.
C29_Witness ==
    /\ parsing.pc = "returned"
    /\ parsing.lines = <<HeaderRename, HeaderSame, Hunk1, Add>>
    /\ Len(ParsedFiles) = 2
    /\ ParsedFiles[1].path = BPy /\ ParsedFiles[1].hunks = <<>>
    /\ ParsedFiles[2].path = APy /\ Len(ParsedFiles[2].hunks) = 1

C35_AtMostOneRecordPerSha ==
    /\ \A sha \in SHAs :
          Cardinality({ row \in reviews : row.head_sha = sha }) <= 1
    /\ \A t \in Tasks :
          ~( run[t].pc = "raised" /\ run[t].exc.kind = "MultipleResultsFound" )

\* C36: within one run the record's status is set once: a run that has
\* invoked mark_completed on its record never invokes mark_failed on it, so
\* a record the run marked completed is not failed afterwards, also when
\* saving the comments raised.
C36_CompletedIsFinal ==
    \A t \in Tasks :
        ( HasSession(t) /\ run[t].review_db_id # None )
        => /\ ~( Called(t, "mark_completed") /\ Called(t, "mark_failed") )
           /\ CountOp(run[t].calls, "mark_completed")
                 + CountOp(run[t].calls, "mark_failed") <= 1
           /\ Called(t, "mark_completed") => OwnRecord(t).status = "completed"

\* C37: when an execution that created its record ends in an exception, the
\* record is in the committed table once the caller has closed the session of
\* the run, with status failed and the error text, for a later run to read.
C37_FailedRecordIsStored ==
    [][ \A t \in Tasks :
          ( /\ run[t].pc = "raised"
            /\ Called(t, "mark_failed")
            /\ run'[t].pc = "idle" )
          => \E row \in reviews' :
                /\ row.id = run[t].review_db_id[1]
                /\ row.status = "failed"
                /\ row.error_message = Some(run[t].exc.kind) ]_vars

RECURSIVE HalvesOf(_)
HalvesOf(responses) ==
    IF responses = <<>> THEN 0
    ELSE (Head(responses).tokens_used \div 2) + HalvesOf(Tail(responses))

OddResponses(responses) ==
    Cardinality({ k \in 1..Len(responses) : responses[k].tokens_used % 2 = 1 })

\* The run has marked its record completed and the record is still so.
RecordCompleted(t) ==
    /\ HasSession(t)
    /\ run[t].review_db_id # None
    /\ run[t].pc \in {"create_many", "returned"}
    /\ Called(t, "mark_completed")
    /\ Called(t, "review_code")

\* C39: on the record a run marked completed, tokens_input and tokens_output
\* are each the sum over the reviewed files of tokens_used halved and rounded
\* down; tokens_total is their sum, never more than the total_tokens of the
\* PipelineResult (the sum of tokens_used) and short of it by exactly the
\* number of reviewed files whose tokens_used is odd.
C39_PersistedTokenSplit ==
    \A t \in Tasks :
        RecordCompleted(t)
        => LET row == OwnRecord(t)
               responses == run[t].all_responses
               total_tokens == SumTo(responses, "tokens_used", Len(responses))
           IN  /\ row.tokens_input = HalvesOf(responses)
               /\ row.tokens_output = HalvesOf(responses)
               /\ row.tokens_total = 2 * HalvesOf(responses)
               /\ row.tokens_total <= total_tokens
               /\ total_tokens - row.tokens_total = OddResponses(responses)
               /\ run[t].pc = "returned"
                  => run[t].result[1].total_tokens = total_tokens

\* A run returned after reviewing two files, of which one used an odd number
\* of tokens: the stored total is one short of the reported one.
C39_OneOddFile ==
    \E t \in Tasks :
        /\ RecordCompleted(t)
        /\ run[t].pc = "returned"
        /\ Len(run[t].all_responses) = 2
        /\ OddResponses(run[t].all_responses) = 1
        /\ OwnRecord(t).tokens_total = run[t].result[1].total_tokens - 1

\* The line is one that parse records in the open hunk: it begins with "+"
\* and not "+++", with "-" and not "---", or with a space.
RecordedLine(line) ==
    \/ RawMarked(line, "+")
    \/ RawMarked(line, "-")
    \/ ( Len(line) >= 1 /\ line[1] = " " )

\* The k-th section as written, from its first hunk header on, keeping the
\* hunk headers and the lines that are recorded.
OwnHunkText(lines, k) ==
    LET body == SectionBody(lines, k)
        headers == { i \in body : IsHunkHeaderLine(lines[i]) }
    IN  IF headers = {} THEN <<>>
        ELSE LET first == CHOOSE i \in headers : \A j \in headers : i <= j
                 last == CHOOSE i \in body : \A j \in body : j <= i
                 text == [i \in 1..(last - first + 1) |-> lines[first + i - 1]]
             IN  SelectSeq(text, LAMBDA line :
                                   IsHunkHeaderLine(line) \/ RecordedLine(line))

\* C40: the diff of a file's ReviewRequest is, in order, the hunk headers and
\* the recorded lines that stand in the file's own section of the text from
\* the section's first hunk header on: nothing of another section, nothing
\* that stands before the first hunk header.
C40_FragmentIsOwnHunks ==
    parsing.pc = "returned"
    => \A k \in 1..Len(ParsedFiles) :
          parsing.read[k].diff = OwnHunkText(parsing.lines, k)

\* Two sections with hunks: the first file's diff ends where the second
\* header stands, and the deletion before the second section's hunk header
\* is in neither.
C40_TwoSections ==
    /\ parsing.pc = "returned"
    /\ parsing.lines =
          <<HeaderSame, Hunk1, Add, Ctx, HeaderRename, Del, Hunk10, Del, NoNewline>>
    /\ parsing.read[1].diff = <<Hunk1, Add, Ctx>>
    /\ parsing.read[2].diff = <<Hunk10, Del>>

\* ----- provider calls
\* A _parse_response call of either provider has ended.
ParseEnded ==
    /\ llm.pc \in {"returned", "raised"}
    /\ llm.op \in {"anthropic._parse_response", "ollama._parse_response"}

\* The text is a JSON object, alone or in a fence, whose verdict key is
\* absent or a string.
ObjectWithPlainVerdict ==
    /\ llm.response_text.shape # "embedded"
    /\ llm.response_text.doc.kind = "object"
    /\ llm.response_text.doc.verdict \notin {Some(JNull)}

\* The entry is well-formed: an object with a line that is a number or a
\* string of digits, a body, and a category and severity that are absent or
\* name a member of their Enum in either case.
IsWellFormed(c) ==
    /\ c.kind = "object"
    /\ c.line \in {Some(JNum(10)), Some(JStr("20"))}
    /\ c.body # None
    /\ c.category \in {None, Some(JStr("bug"))}
    /\ c.severity \in {None, Some(JStr("WARNING"))}

\* The line and body of the well-formed entries of the text, in order.
WellFormedOf(entries) ==
    LET kept == SelectSeq(entries, IsWellFormed)
    IN  [k \in 1..Len(kept) |->
           [line |-> IF kept[k].line = Some(JNum(10)) THEN 10 ELSE 20,
            body |-> kept[k].body[1].s]]

EntriesOf(doc) == IF doc.comments = None THEN <<>> ELSE doc.comments[1]

\* C31: _parse_response of either provider, on a JSON object, returns: its
\* comment list is the well-formed entries of the text in order, each with
\* the path of the reviewed file, every malformed entry being dropped; and
\* its summary and verdict are those of the same text without comments.
C31_MalformedEntriesDropped ==
    ( ParseEnded /\ ObjectWithPlainVerdict )
    => /\ llm.pc = "returned"
       /\ LET parsed == llm.result[1].value[1]
              doc == llm.response_text.doc
              bare == Transform([doc EXCEPT !.comments = None], llm.file_path).value[1]
          IN  /\ [k \in 1..Len(parsed.comments) |->
                    [line |-> parsed.comments[k].line,
                     body |-> parsed.comments[k].body]]
                 = WellFormedOf(EntriesOf(doc))
              /\ \A k \in 1..Len(parsed.comments) :
                    parsed.comments[k].path = llm.file_path
              /\ parsed.summary = bare.summary
              /\ parsed.verdict = bare.verdict

\* The text is a JSON object without comments, alone or in a fence.
ObjectWithoutComments ==
    /\ llm.response_text.shape # "embedded"
    /\ llm.response_text.doc.kind = "object"
    /\ llm.response_text.doc.comments = None

\* C32: on a text that is no JSON the Anthropic parse raises
\* LLMResponseParseError and the Ollama parse returns the fixed neutral
\* response (verdict "comment", no comments, the fixed summary); on a JSON
\* object either parse returns, with verdict "comment" when the verdict of
\* the text is none of approve, request_changes and comment.
C32_InvalidJsonAndUnknownVerdict ==
    ParseEnded
    => /\ llm.response_text.doc.kind = "garbage"
          => IF llm.op = "anthropic._parse_response"
             THEN /\ llm.pc = "raised"
                  /\ llm.result[1].raised = Some("LLMResponseParseError")
             ELSE /\ llm.pc = "returned"
                  /\ llm.result[1].value[1] = Fallback
       /\ ObjectWithoutComments
          => /\ llm.pc = "returned"
             /\ llm.response_text.doc.verdict
                   \notin { Some(JStr("approve")), Some(JStr("APPROVE")),
                            Some(JStr("request_changes")) }
                => llm.result[1].value[1].verdict = "comment"

\* The server answered an OllamaProvider.review_code call with a text that
\* is no JSON, or with a JSON object without comments whose verdict is absent
\* or a string.
OllamaAnswered ==
    /\ llm.pc \in {"returned", "raised"}
    /\ llm.op = "ollama.review_code"
    /\ llm.available
    /\ llm.http = "ok"
    /\ \/ llm.response_text.doc.kind = "garbage"
       \/ ObjectWithoutComments /\ ObjectWithPlainVerdict

\* C33: when the Ollama server is available and answers, review_code returns
\* a ReviewResponse and raises nothing: the parsed review when the text is
\* JSON, the neutral response when it is not.
C33_OllamaAlwaysAnswers ==
    OllamaAnswered
    => /\ llm.pc = "returned"
       /\ llm.result[1].value[1].verdict \in {"approve", "request_changes", "comment"}
       /\ llm.response_text.doc.kind = "garbage"
          => /\ llm.result[1].value[1].verdict = Fallback.verdict
             /\ llm.result[1].value[1].comments = <<>>

\* ----- webhook deliveries
\* The signature header of the delivery is the digest of its body under the
\* configured secret.
SignatureMatches ==
    /\ webhook.x_hub_signature_256 # None
    /\ webhook.x_hub_signature_256[1].key = webhook.github_webhook_secret[1]
    /\ webhook.x_hub_signature_256[1].over = webhook.body

\* The delivery is one the receiver is to queue a review for.
ToBeQueued ==
    /\ webhook.github_webhook_secret = None \/ SignatureMatches
    /\ webhook.x_github_event = "pull_request"
    /\ webhook.payload.action \in { Some("opened"), Some("synchronize"),
                                    Some("reopened") }
    /\ webhook.payload.full_name \in { Some(<<"o", "/", "r">>),
                                       Some(<<"o", "/", "r", "/", "x">>) }
    /\ webhook.payload.number # None

\* C34: the receiver enqueues a review task exactly when the signature
\* check passes, the event is pull_request, the action is opened,
\* synchronize or reopened, the repository's full_name contains "/" and the
\* number is there; it then enqueues one task, for the owner before the
\* first "/" and the repository after it, with post_review and
\* skip_if_reviewed true; and with a secret configured a delivery whose
\* signature is missing or does not match is answered 401 with nothing
\* enqueued.
C34_WebhookEnqueue ==
    webhook.pc = "answered"
    => LET response == webhook.response[1]
       IN  /\ ( response.enqueued # <<>> ) <=> ToBeQueued
           /\ ToBeQueued
              => /\ Len(response.enqueued) = 1
                 /\ response.enqueued[1].post_review
                 /\ response.enqueued[1].skip_if_reviewed
                 /\ response.enqueued[1].owner = <<"o">>
                 /\ response.enqueued[1].repo
                       \in { <<"r">>, <<"r", "/", "x">> }
                 /\ response.enqueued[1].pr_number = 7
                 /\ response.status_code = 202
           /\ ( webhook.github_webhook_secret # None /\ ~SignatureMatches )
              => /\ response.status_code = 401
                 /\ response.enqueued = <<>>

\* With a secret configured, a correctly signed delivery of a synchronize
\* event was queued.
C34_SignedDeliveryQueued ==
    /\ webhook.pc = "answered"
    /\ webhook.github_webhook_secret = Some("s1")
    /\ SignatureMatches
    /\ webhook.payload.action = Some("synchronize")
    /\ webhook.response[1].status_code = 202
    /\ Len(webhook.response[1].enqueued) = 1

====
